---------------------------- MODULE Spec2Model ----------------------------
(***************************************************************************)
(* Rekaz -> Hatif WhatsApp middleware (AJLAN0/SUMOVC_API).                 *)
(*                                                                         *)
(* One module, several specifications over the same variables:             *)
(*   SpecToken : app/services/token_cache.py, N coroutines calling         *)
(*               TokenCache.get on one asyncio event loop.                 *)
(*   SpecHatif : app/routers/hatif_webhook.py, status callbacks updating   *)
(*               message_logs.                                             *)
(*   Spec      : app/routers/rekaz_webhook.py + reminder_worker.py +       *)
(*               test_reminder.py over the shared store.                   *)
(* Each specification leaves the variables of the others unchanged.        *)
(***************************************************************************)
EXTENDS Integers, Sequences, FiniteSets, Bags, TLC

None == "None"

Max(a, b) == IF a >= b THEN a ELSE b

Range(s) == {s[i] : i \in DOMAIN s}

\* TokenCache (services/token_cache.py) and its callers
VARIABLES
    tc_token,        \* TokenCache._token : None or a token
    tc_expires_at,   \* TokenCache._expires_at
    tc_lock,         \* asyncio.Lock._locked
    tc_waiters,      \* asyncio.Lock._waiters, FIFO
    cpc,             \* position of each caller inside get()
    cres,            \* what each caller's get() returned or raised
    blocked,         \* history: "no", "waited" (queued on the lock),
                     \* "waited_failed" (queued while a fetch failed)
    fetches,         \* history: every invocation of the fetcher, in order
    clock            \* time.time()

tokenVars == <<tc_token, tc_expires_at, tc_lock, tc_waiters, cpc, cres,
               blocked, fetches, clock>>

\* the durable store (models.py)
VARIABLES
    utcnow,              \* datetime.utcnow(), in minutes
    webhook_events,      \* table webhook_events: rows in insertion order
    message_logs,        \* table message_logs: rows in insertion order
    sent_notifications,  \* table sent_notifications
    scheduled_messages,  \* table scheduled_messages: job id -> row
    job_seq              \* number of scheduled_messages rows ever inserted

storeVars == <<utcnow, webhook_events, message_logs, sent_notifications,
               scheduled_messages, job_seq>>

\* StatusCorrelator (routers/hatif_webhook.py)
VARIABLES
    hatif_count,     \* callbacks delivered so far
    hatif_last,      \* the last callback: payload, matched row, response
    sends_logged,    \* send rows written so far in SpecHatif
    webhook_secret   \* settings.HATIF_WEBHOOK_SECRET

hatifVars == <<hatif_count, hatif_last, sends_logged, webhook_secret>>

\* EventIngestor (routers/rekaz_webhook.py), reminder worker, test script
VARIABLES
    send_mode,       \* settings.HATIF_SEND_MODE
    admin_numbers,   \* settings.admin_numbers(): the normalized admin phones
    ppc,             \* position of each background task
    pev,             \* its event and locals (success, response, admin index)
    provider_calls,  \* history: bag of the sends issued to the provider
    event_outcome,   \* history: per external id, what its client send reported
    wpc,             \* position of each worker instance
    wbatch,          \* the jobs its tick loaded into the session
    widx,            \* index of the job being processed
    wlogs,           \* MessageLog rows added to the session, not yet committed
    test_runs        \* runs of test_reminder.py so far

ingestVars == <<send_mode, admin_numbers, ppc, pev, provider_calls, event_outcome>>
workerVars == <<wpc, wbatch, widx, wlogs, test_runs>>

\* calls of the pure helpers (services/rekaz.py)
VARIABLES
    fn_arg,          \* <<argument>> of the call, <<>> when there is none
    fn_result        \* <<value returned>>, <<>> before the call has returned

fnVars == <<fn_arg, fn_result>>

vars == <<tokenVars, storeVars, hatifVars, ingestVars, workerVars, fnVars>>

(***************************************************************************)
(* ---------------------------  TokenCache  ------------------------------ *)
(***************************************************************************)

\* coroutines that call TokenCache.get, once each
NumCallers == 3
Callers == 1..NumCallers
\* time.time() runs over 0..MaxClock seconds and advances by one of ClockSteps
MaxClock == 80
ClockSteps == {20, 40}
\* expires_in values the token endpoint may report
ExpiresIn == {10, 90}
\* max(expires_in - 30, 30): the safety margin and the floor
TTL_MARGIN == 30
TTL_FLOOR == 30

\* a cache whose token is taken as valid whatever the time
CacheNeverExpires(now) == tc_token # None

\* `if self._token and now < self._expires_at`
CacheValid(now) == tc_token # None /\ now < tc_expires_at

\* a get() that does not look at the cache again once it holds the lock
RecheckSkipped(now) == FALSE

\* the double check after `async with self._lock`
RecheckUnderLock(now) == CacheValid(now)

\* a lifetime less the margin, without the floor
TtlWithoutFloor(expires_in) == expires_in - TTL_MARGIN

\* max(expires_in - 30, 30)
EffectiveTtl(expires_in) == Max(expires_in - TTL_MARGIN, TTL_FLOOR)

\* the token the k-th invocation of the fetcher produces (never empty)
TokenOf(k) == <<"t1", "t2", "t3", "t4", "t5", "t6">>[k]

TokenInit ==
    /\ tc_token = None
    /\ tc_expires_at = 0
    /\ tc_lock = FALSE
    /\ tc_waiters = <<>>
    /\ cpc = [c \in Callers |-> "idle"]
    /\ cres = [c \in Callers |-> [kind |-> "none", token |-> None, at |-> 0]]
    /\ blocked = [c \in Callers |-> "no"]
    /\ fetches = <<>>
    /\ clock = 0

ReturnToken(c) ==
    /\ cres' = [cres EXCEPT ![c] = [kind |-> "token", token |-> tc_token, at |-> clock]]
    /\ cpc' = [cpc EXCEPT ![c] = "returned"]

\* the same body run without the lock being held during the fetch
UnderLockNotHeld(c) ==
    IF RecheckUnderLock(clock)
    THEN /\ ReturnToken(c)
         /\ tc_lock' = FALSE
         /\ UNCHANGED fetches
    ELSE /\ tc_lock' = FALSE
         /\ cpc' = [cpc EXCEPT ![c] = "fetching"]
         /\ fetches' = Append(fetches, [by |-> c, started |-> clock, result |-> "inflight",
                                        token |-> None, finished |-> 0, expires_in |-> 0,
                                        expires_at |-> 0])
         /\ UNCHANGED cres

\* body of `async with self._lock:` up to the await of the fetcher;
\* c has just been given the lock
UnderLock(c) ==
    IF RecheckUnderLock(clock)
    THEN /\ ReturnToken(c)
         /\ tc_lock' = FALSE
         /\ UNCHANGED fetches
    ELSE /\ tc_lock' = TRUE
         /\ cpc' = [cpc EXCEPT ![c] = "fetching"]
         /\ fetches' = Append(fetches, [by |-> c, started |-> clock, result |-> "inflight",
                                        token |-> None, finished |-> 0, expires_in |-> 0,
                                        expires_at |-> 0])
         /\ UNCHANGED cres

\* TokenCache.get up to its first suspension point
Get(c) ==
    /\ UNCHANGED <<storeVars, hatifVars, ingestVars, workerVars, fnVars>>
    /\ cpc[c] = "idle"
    /\ IF CacheValid(clock)
       THEN /\ ReturnToken(c)
            /\ UNCHANGED <<tc_lock, tc_waiters, fetches, blocked>>
       ELSE IF ~tc_lock /\ tc_waiters = <<>>
            THEN /\ UnderLock(c)
                 /\ UNCHANGED <<tc_waiters, blocked>>
            ELSE /\ tc_waiters' = Append(tc_waiters, c)
                 /\ cpc' = [cpc EXCEPT ![c] = "wait_lock"]
                 /\ blocked' = [blocked EXCEPT ![c] = "waited"]
                 /\ UNCHANGED <<tc_lock, cres, fetches>>
    /\ UNCHANGED <<tc_token, tc_expires_at, clock>>

\* the first waiter is woken by release() and resumes inside the lock
LockAcquired(c) ==
    /\ UNCHANGED <<storeVars, hatifVars, ingestVars, workerVars, fnVars>>
    /\ cpc[c] = "wait_lock"
    /\ ~tc_lock
    /\ tc_waiters # <<>>
    /\ c = Head(tc_waiters)
    /\ tc_waiters' = Tail(tc_waiters)
    /\ UnderLock(c)
    /\ UNCHANGED <<tc_token, tc_expires_at, blocked, clock>>

\* `token, expires_in = await fetcher()` returns
FetchOk(c, expires_in) ==
    /\ UNCHANGED <<storeVars, hatifVars, ingestVars, workerVars, fnVars>>
    /\ cpc[c] = "fetching"
    /\ LET k == Len(fetches)
           exp == clock + EffectiveTtl(expires_in)
       IN /\ tc_token' = TokenOf(k)
          /\ tc_expires_at' = exp
          /\ fetches' = [fetches EXCEPT ![k] = [@ EXCEPT !.result = "ok", !.token = TokenOf(k),
                                                         !.finished = clock,
                                                         !.expires_in = expires_in,
                                                         !.expires_at = exp]]
          /\ cres' = [cres EXCEPT ![c] = [kind |-> "token", token |-> TokenOf(k), at |-> clock]]
    /\ cpc' = [cpc EXCEPT ![c] = "returned"]
    /\ tc_lock' = FALSE
    /\ UNCHANGED <<tc_waiters, blocked, clock>>

\* the fetcher raises and the exception leaves get() with the lock still held
FetchFailKeepsLock(c) ==
    /\ UNCHANGED <<storeVars, hatifVars, ingestVars, workerVars, fnVars>>
    /\ cpc[c] = "fetching"
    /\ fetches' = [fetches EXCEPT ![Len(fetches)] = [@ EXCEPT !.result = "fail", !.finished = clock]]
    /\ cres' = [cres EXCEPT ![c] = [kind |-> "raised", token |-> None, at |-> clock]]
    /\ cpc' = [cpc EXCEPT ![c] = "raised"]
    /\ tc_lock' = TRUE
    /\ blocked' = [w \in Callers |-> IF w \in Range(tc_waiters) THEN "waited_failed" ELSE blocked[w]]
    /\ UNCHANGED <<tc_token, tc_expires_at, tc_waiters, clock>>

\* the fetcher raises: logged, re-raised, the lock is released by `async with`
FetchFail(c) ==
    /\ UNCHANGED <<storeVars, hatifVars, ingestVars, workerVars, fnVars>>
    /\ cpc[c] = "fetching"
    /\ fetches' = [fetches EXCEPT ![Len(fetches)] = [@ EXCEPT !.result = "fail", !.finished = clock]]
    /\ cres' = [cres EXCEPT ![c] = [kind |-> "raised", token |-> None, at |-> clock]]
    /\ cpc' = [cpc EXCEPT ![c] = "raised"]
    /\ tc_lock' = FALSE
    /\ blocked' = [w \in Callers |-> IF w \in Range(tc_waiters) THEN "waited_failed" ELSE blocked[w]]
    /\ UNCHANGED <<tc_token, tc_expires_at, tc_waiters, clock>>

\* wall-clock time passes
AdvanceClock ==
    /\ UNCHANGED <<storeVars, hatifVars, ingestVars, workerVars, fnVars>>
    /\ \E d \in ClockSteps : clock + d <= MaxClock /\ clock' = clock + d
    /\ UNCHANGED <<tc_token, tc_expires_at, tc_lock, tc_waiters, cpc, cres, blocked, fetches>>

TokenNext ==
    \/ \E c \in Callers : Get(c)
    \/ \E c \in Callers : LockAcquired(c)
    \/ \E c \in Callers, e \in ExpiresIn : FetchOk(c, e)
    \/ \E c \in Callers : FetchFail(c)
    \/ AdvanceClock

(***************************************************************************)
(* ------------------------  The durable store  -------------------------- *)
(***************************************************************************)

StoreInit ==
    /\ utcnow = 0
    /\ webhook_events = <<>>
    /\ message_logs = <<>>
    /\ sent_notifications = {}
    /\ scheduled_messages = <<>>
    /\ job_seq = 0

\* models.MessageLog(...) as the send paths build it: the correlation
\* fields come from the provider's parsed response
SendLog(phone, template_name, status, provider_response, response_json, channel) ==
    [phone |-> phone, template_name |-> template_name, status |-> status,
     provider_response |-> provider_response,
     conversation_event_id |-> response_json.conversationeventid,
     contact_id |-> response_json.contactid,
     channel_id |-> channel,
     last_status |-> response_json.status,
     last_status_at |-> None,
     direction |-> None,
     message_id |-> None,
     error_code |-> None,
     error_reason |-> response_json.message,
     created_at |-> utcnow]

(***************************************************************************)
(* -----------------  StatusCorrelator (hatif_webhook)  ------------------ *)
(***************************************************************************)

\* status callbacks delivered in one behaviour
MaxCallbacks == 2
\* sends whose MessageLog is written in one behaviour of SpecHatif
MaxLoggedSends == 2
\* the fallback window: timedelta(hours=24), in minutes
FALLBACK_WINDOW == 1440
\* utcnow advances by one of these (minutes) up to MaxUtcNow
HatifTimeSteps == {1000}
MaxUtcNow == 2000

\* settings.HATIF_CHANNEL_ID (required, never empty)
HATIF_CHANNEL_ID == "ch1"

SUCCESS_STATUSES == {"sent", "delivered", "read", "success"}

HatifInit ==
    /\ hatif_count = 0
    /\ hatif_last = [payload |-> None, matched |-> 0, response |-> "none", body |-> "none",
                     bytes |-> "utf8", signature |-> <<>>]
    /\ sends_logged = 0
    /\ webhook_secret = ""

\* Python truthiness of an extracted value: None and "" are empty
Empty(v) == v = None

\* `new or old`
OrElse(new, old) == IF Empty(new) THEN old ELSE new

\* str(status).lower() if status is not None else ""
Lower(v) == IF v = None THEN "" ELSE IF v = "Read" THEN "read" ELSE v

\* _parse_datetime: None for an empty or unparseable value
ParseDatetime(v) == IF v \in {None, "bad"} THEN None ELSE v

\* what a callback may carry after the alias lookup (_ci); each field is
\* None when the callback leaves it out
CallbackIds ==
    { [conversation_event_id |-> "cv1", contact_id |-> "ct1", channel_id |-> "ch1"],
      [conversation_event_id |-> "cv1", contact_id |-> None, channel_id |-> None],
      [conversation_event_id |-> "cv3", contact_id |-> "ct1", channel_id |-> "ch1"],
      [conversation_event_id |-> None, contact_id |-> "ct1", channel_id |-> "ch1"],
      [conversation_event_id |-> None, contact_id |-> "ct1", channel_id |-> None],
      [conversation_event_id |-> None, contact_id |-> None, channel_id |-> None] }

CallbackDetails ==
    { [status |-> None, timestamp |-> None, direction |-> None, message_id |-> None,
       error_code |-> None, error_reason |-> None],
      [status |-> "delivered", timestamp |-> "t20", direction |-> None, message_id |-> None,
       error_code |-> None, error_reason |-> None],
      [status |-> "failed", timestamp |-> "t10", direction |-> "outbound", message_id |-> "m1",
       error_code |-> "131", error_reason |-> "expired"],
      [status |-> None, timestamp |-> "bad", direction |-> "outbound", message_id |-> None,
       error_code |-> None, error_reason |-> None],
      [status |-> "Read", timestamp |-> None, direction |-> None, message_id |-> "m2",
       error_code |-> None, error_reason |-> None] }

CallbackPayloads ==
    {[conversation_event_id |-> i.conversation_event_id, contact_id |-> i.contact_id,
      channel_id |-> i.channel_id, status |-> d.status, timestamp |-> d.timestamp,
      direction |-> d.direction, message_id |-> d.message_id,
      error_code |-> d.error_code, error_reason |-> d.error_reason] :
        i \in CallbackIds, d \in CallbackDetails}

\* rows whose conversation_event_id equals the callback's
ByConversation(cv) ==
    {i \in DOMAIN message_logs : message_logs[i].conversation_event_id = cv}

\* rows with the callback's contact and channel created in the last 24 h
ByContactChannel(ct, ch) ==
    {i \in DOMAIN message_logs :
        /\ message_logs[i].contact_id = ct
        /\ message_logs[i].channel_id = ch
        /\ message_logs[i].created_at >= utcnow - FALLBACK_WINDOW}

\* order_by(desc(created_at)).first(): any row with the latest created_at
MostRecent(rows) ==
    {i \in rows : \A j \in rows : message_logs[j].created_at <= message_logs[i].created_at}

\* an update that also rewrites the coarse status from the callback's
UpdateMatchedAndStatus(row, p) ==
    [row EXCEPT
        !.conversation_event_id = OrElse(p.conversation_event_id, row.conversation_event_id),
        !.contact_id = OrElse(p.contact_id, row.contact_id),
        !.channel_id = OrElse(p.channel_id, row.channel_id),
        !.last_status = OrElse(p.status, row.last_status),
        !.last_status_at = OrElse(ParseDatetime(p.timestamp), row.last_status_at),
        !.direction = OrElse(p.direction, row.direction),
        !.message_id = OrElse(p.message_id, row.message_id),
        !.error_code = p.error_code,
        !.error_reason = p.error_reason,
        !.provider_response = "callback_json",
        !.status = IF Lower(p.status) \in SUCCESS_STATUSES THEN "success" ELSE "failed"]

\* the `if matched:` block: the in-place update of the matched row
UpdateMatched(row, p) ==
    [row EXCEPT
        !.conversation_event_id = OrElse(p.conversation_event_id, row.conversation_event_id),
        !.contact_id = OrElse(p.contact_id, row.contact_id),
        !.channel_id = OrElse(p.channel_id, row.channel_id),
        !.last_status = OrElse(p.status, row.last_status),
        !.last_status_at = OrElse(ParseDatetime(p.timestamp), row.last_status_at),
        !.direction = OrElse(p.direction, row.direction),
        !.message_id = OrElse(p.message_id, row.message_id),
        !.error_code = p.error_code,
        !.error_reason = p.error_reason,
        !.provider_response = "callback_json"]

\* the fallback insert: a shell row populated from the callback only
ShellLog(p) ==
    [phone |-> None, template_name |-> None,
     status |-> IF Lower(p.status) \in SUCCESS_STATUSES THEN "success" ELSE "failed",
     provider_response |-> "callback_json",
     conversation_event_id |-> p.conversation_event_id,
     contact_id |-> p.contact_id,
     channel_id |-> p.channel_id,
     last_status |-> p.status,
     last_status_at |-> ParseDatetime(p.timestamp),
     direction |-> p.direction,
     message_id |-> p.message_id,
     error_code |-> p.error_code,
     error_reason |-> p.error_reason,
     created_at |-> utcnow]

\* the handler from the field extraction on, for the payload p that the
\* parsing of the body left (kind "json": parsed, "malformed": replaced by {})
Correlate(p, body, signature) ==
    /\ hatif_count < MaxCallbacks
    /\ hatif_count' = hatif_count + 1
    /\ LET conv == IF Empty(p.conversation_event_id) THEN {}
                   ELSE ByConversation(p.conversation_event_id)
       IN IF Cardinality(conv) > 1
          THEN \* scalar_one_or_none() raises MultipleResultsFound
               /\ hatif_last' = [payload |-> p, matched |-> 0, response |-> "error500",
                                 body |-> body.kind, bytes |-> body.bytes,
                                 signature |-> signature]
               /\ UNCHANGED message_logs
          ELSE LET fallback == IF conv = {} /\ ~Empty(p.contact_id) /\ ~Empty(p.channel_id)
                               THEN MostRecent(ByContactChannel(p.contact_id, p.channel_id))
                               ELSE {}
                   candidates == IF conv # {} THEN conv ELSE fallback
               IN IF candidates # {}
                  THEN \E m \in candidates :
                          /\ message_logs' = [message_logs EXCEPT ![m] = UpdateMatched(@, p)]
                          /\ hatif_last' = [payload |-> p, matched |-> m, response |-> "ok",
                                            body |-> body.kind, bytes |-> body.bytes,
                                 signature |-> signature]
                  ELSE /\ message_logs' = Append(message_logs, ShellLog(p))
                       /\ hatif_last' = [payload |-> p, matched |-> 0, response |-> "ok",
                                         body |-> body.kind, bytes |-> body.bytes,
                                 signature |-> signature]
    /\ UNCHANGED <<utcnow, webhook_events, sent_notifications, scheduled_messages, job_seq,
                   sends_logged, webhook_secret>>

\* a request body: what json.loads makes of its text (kind, payload) and
\* whether its bytes are valid UTF-8
JsonBody(p) == [kind |-> "json", payload |-> p, bytes |-> "utf8"]

\* body.decode("utf-8", errors="replace"): invalid bytes become U+FFFD, and
\* the text, encoded again, is a valid UTF-8 string
Decode(body) == [body EXCEPT !.bytes = "utf8"]

\* hmac.new(secret, body, sha256).hexdigest(): the lower-case hex digest,
\* one for each key and byte string
compute_hmac_sha256_hex(body_utf8, secret) ==
    [body |-> body_utf8, key |-> secret, form |-> "lower"]

\* signature.strip().lower(): upper-case hex and surrounding blanks are
\* normalized away, any other decoration (a "sha256=" prefix) is not
Received(signature) ==
    [signature EXCEPT !.form = IF @ \in {"upper", "padded"} THEN "lower" ELSE @]

\* verify_voxa_signature; the header is <<>> when absent
verify_voxa_signature(body_utf8, secret, signature) ==
    IF signature = <<>> \/ secret = ""
    THEN FALSE
    ELSE compute_hmac_sha256_hex(body_utf8, secret) = Received(signature[1])

\* a handler that verifies whether or not a secret is configured
RejectedWithoutSecret(body, signature) ==
    ~verify_voxa_signature(Decode(body), webhook_secret, signature)

\* `if settings.HATIF_WEBHOOK_SECRET:` ... raise HTTPException(401)
Rejected(body, signature) ==
    /\ webhook_secret # ""
    /\ ~verify_voxa_signature(Decode(body), webhook_secret, signature)

\* the handler: the signature gate, then the correlation
Handle(body, signature) ==
    IF Rejected(body, signature)
    THEN /\ hatif_count < MaxCallbacks
         /\ hatif_count' = hatif_count + 1
         /\ hatif_last' = [payload |-> body.payload, matched |-> 0,
                           response |-> "unauthorized", body |-> body.kind,
                           bytes |-> body.bytes, signature |-> signature]
         /\ UNCHANGED <<utcnow, webhook_events, message_logs, sent_notifications,
                        scheduled_messages, job_seq, sends_logged, webhook_secret>>
    ELSE Correlate(body.payload, body, signature)

\* POST /webhooks/hatif/whatsapp with a parsed payload p and no signature
\* header
hatif_whatsapp_webhook(p) ==
    /\ UNCHANGED <<tokenVars, ingestVars, workerVars, fnVars>>
    /\ Handle(JsonBody(p), <<>>)

\* `payload = {}`: every field the handler looks up is absent
EmptyPayload ==
    [conversation_event_id |-> None, contact_id |-> None, channel_id |-> None,
     status |-> None, timestamp |-> None, direction |-> None, message_id |-> None,
     error_code |-> None, error_reason |-> None]

\* POST /webhooks/hatif/whatsapp with a body that json.loads rejects: the
\* except branch sets payload = {} and the handler goes on
hatif_malformed_body ==
    /\ UNCHANGED <<tokenVars, ingestVars, workerVars, fnVars>>
    /\ Handle([kind |-> "malformed", payload |-> EmptyPayload, bytes |-> "utf8"], <<>>)

\* the bodies and signature headers of the signed specification: a header
\* is a form of the digest that some key gives for some body
SignedBodies ==
    {[kind |-> "json", payload |-> p, bytes |-> b] :
        p \in {q \in CallbackPayloads :
                  /\ q.status = "delivered"
                  /\ q.conversation_event_id \in {"cv1", None}
                  /\ q.channel_id = "ch1"
                        \/ (q.contact_id = None /\ q.conversation_event_id = None)},
        b \in {"utf8", "invalid"}}
    \cup {[kind |-> "malformed", payload |-> EmptyPayload, bytes |-> "utf8"]}

\* the headers tried with a body: none, or the digest of this body, of its
\* text or of another body, under the configured or another key, as lower-
\* or upper-case hex, with blanks around it or with a "sha256=" prefix
SignaturesFor(body) ==
    {<<>>} \cup
    {<<[body |-> b, key |-> k, form |-> f]>> :
        b \in {body, Decode(body), JsonBody(EmptyPayload)},
        k \in {"k1", "k2"}, f \in {"lower", "upper", "padded", "prefixed"}}

\* POST /webhooks/hatif/whatsapp with any body and X-Voxa-Signature header
hatif_signed_webhook(body, signature) ==
    /\ UNCHANGED <<tokenVars, ingestVars, workerVars, fnVars>>
    /\ Handle(body, signature)

\* what the provider's send response parses to (_normalize_keys of its JSON)
ProviderResponses ==
    { [ok |-> TRUE, conversationeventid |-> "cv1", contactid |-> "ct1", status |-> "accepted", message |-> None],
      [ok |-> TRUE, conversationeventid |-> "cv2", contactid |-> "ct1", status |-> "accepted", message |-> None],
      [ok |-> TRUE, conversationeventid |-> None, contactid |-> None, status |-> None, message |-> None],
      [ok |-> FALSE, conversationeventid |-> None, contactid |-> None, status |-> None, message |-> "error"] }

\* a send path writes its MessageLog after the provider has answered
LogSend(r) ==
    /\ UNCHANGED <<tokenVars, ingestVars, workerVars, fnVars>>
    /\ sends_logged < MaxLoggedSends
    /\ sends_logged' = sends_logged + 1
    /\ message_logs' = Append(message_logs,
          SendLog("p1", "reservation_confirmed", IF r.ok THEN "success" ELSE "failed",
                  [success |-> r.ok, response |-> "body"], r, HATIF_CHANNEL_ID))
    /\ UNCHANGED <<utcnow, webhook_events, sent_notifications, scheduled_messages, job_seq,
                   hatif_count, hatif_last, webhook_secret>>

HatifAdvanceTime ==
    /\ UNCHANGED <<tokenVars, ingestVars, workerVars, fnVars>>
    /\ \E d \in HatifTimeSteps : utcnow + d <= MaxUtcNow /\ utcnow' = utcnow + d
    /\ UNCHANGED <<webhook_events, message_logs, sent_notifications, scheduled_messages,
                   job_seq, hatif_count, hatif_last, sends_logged, webhook_secret>>

HatifNext ==
    \/ \E p \in CallbackPayloads : hatif_whatsapp_webhook(p)
    \/ hatif_malformed_body
    \/ \E r \in ProviderResponses : LogSend(r)
    \/ HatifAdvanceTime

(***************************************************************************)
(* ------------  EventIngestor (rekaz_webhook) and the worker  ----------- *)
(***************************************************************************)

\* inbound reservation events delivered in one behaviour (one background
\* task each)
MaxDeliveries == 2
Procs == 1..MaxDeliveries
\* runs of the test_reminder.py script in one behaviour
MaxTestRuns == 2
\* utcnow takes these values (minutes)
TimePoints == {0, 10}

\* reminder_worker.py
BATCH_SIZE == 50
MAX_ATTEMPTS == 5
\* settings.REMINDER_BEFORE_MINUTES / ALLOWED_LATE_MINUTES (defaults)
REMINDER_BEFORE_MINUTES == 20
ALLOWED_LATE_MINUTES == 10
\* test_reminder.py: run_at = now + timedelta(minutes=2)
TEST_DELAY_MINUTES == 2
\* settings.EMPTY_PARAM_PLACEHOLDER (default)
EMPTY_PARAM_PLACEHOLDER == "-"
\* test_reminder.py is run with this phone as its argument
TestPhone == "p1"

\* the worker instance of this process, and a second instance polling the
\* same store
Workers == {"w1"}
AllWorkers == {"w1", "w2"}

EVENT_TEMPLATE_MAP ==
    [ReservationCreatedEvent |-> "welcome",
     ReservationConfirmedEvent |-> "reservation_confirmed",
     ReservationCancelledEvent |-> "reservation_cancelled"]

TEMPLATE_PARAM_SPECS ==
    [reservation_confirmed |-> <<"customer_name", "product_name", "reservation_date",
                                 "start_time", "end_time", "invoice_link">>,
     reservation_reminder |-> <<"customer_name", "reservation_after_minutes",
                                "allowed_late_minutes">>,
     reservation_cancelled |-> <<"customer_name", "reservation_number">>,
     admin_reservation_confirmed |-> <<"customer_name", "product_name", "reservation_date",
                                       "start_time">>,
     welcome |-> <<>>]

FALLBACK_SPEC == <<"customer_name", "product_name", "reservation_date", "start_time">>

\* a lookup that falls back to the welcome template
MapWithDefault(event_name) ==
    IF event_name \in DOMAIN EVENT_TEMPLATE_MAP THEN EVENT_TEMPLATE_MAP[event_name]
    ELSE "welcome"

\* map_event_to_template: None for an unknown or empty event name
map_event_to_template(event_name) ==
    IF event_name \in DOMAIN EVENT_TEMPLATE_MAP THEN EVENT_TEMPLATE_MAP[event_name] ELSE None

\* TEMPLATE_PARAM_SPECS.get(template_name) is not None
HasSpec(template_name) == template_name \in DOMAIN TEMPLATE_PARAM_SPECS

\* the builder without the `or placeholder` on a field that is present
BuildKeepingEmpty(template_name, fields, placeholder) ==
    LET spec == IF HasSpec(template_name) THEN TEMPLATE_PARAM_SPECS[template_name]
                ELSE FALLBACK_SPEC
    IN [k \in DOMAIN spec |->
           IF spec[k] \in DOMAIN fields THEN fields[spec[k]] ELSE placeholder]

\* build_template_parameters: one value per slot, the placeholder for a
\* missing or empty field
build_template_parameters(template_name, fields, placeholder) ==
    LET spec == IF HasSpec(template_name) THEN TEMPLATE_PARAM_SPECS[template_name]
                ELSE FALLBACK_SPEC
    IN [k \in DOMAIN spec |->
           IF spec[k] \in DOMAIN fields /\ fields[spec[k]] # "" THEN fields[spec[k]]
           ELSE placeholder]

\* the pre-flight check: expected is not None and len(parameters) != len(expected)
ParamCountMismatch(template_name, parameters) ==
    HasSpec(template_name) /\ Len(parameters) # Len(TEMPLATE_PARAM_SPECS[template_name])

\* an ISO datetime string: its wall-clock reading, in minutes, and the text
\* that follows it ("" for none, "Z" or an offset, "?" for text that is no
\* datetime at all)
Iso(wall, suffix) == [wall |-> wall, suffix |-> suffix]

\* _RIYADH = timezone(timedelta(hours=3)), in minutes
RIYADH == 180

\* the UTC offset a datetime suffix stands for, in minutes
OffsetOf(suffix) == IF suffix = "+03:00" THEN 180 ELSE 0

\* _fmt_iso: a trailing Z becomes +00:00
fmt_iso(value) ==
    IF value = <<>> THEN <<>>
    ELSE <<[value[1] EXCEPT !.suffix = IF @ = "Z" THEN "+00:00" ELSE @]>>

\* _parse_dt: <<>> for a missing or unparseable value, else the datetime with
\* its tzinfo (<<>> when naive)
parse_dt(value) ==
    IF value = <<>> THEN <<>>
    ELSE LET v == fmt_iso(value)[1]
         IN IF v.suffix = "?" THEN <<>>
            ELSE <<[wall |-> v.wall,
                    tzinfo |-> IF v.suffix = "" THEN <<>> ELSE <<OffsetOf(v.suffix)>>]>>

\* a naive datetime read as UTC
NaiveAsUtc(start_dt) ==
    IF start_dt.tzinfo # <<>> THEN start_dt.wall - start_dt.tzinfo[1] ELSE start_dt.wall

\* start_utc: an aware datetime is converted to UTC, a naive one is taken as
\* Riyadh local time
start_utc_of(start_dt) ==
    IF start_dt.tzinfo # <<>>
    THEN start_dt.wall - start_dt.tzinfo[1]
    ELSE start_dt.wall - RIYADH

\* the inbound events, by what extraction yields: the external id, the
\* event name, the normalized phone, the reservation number and the start
\* date string (<<>> when absent).  None stands for a missing value.
ConfirmedEvents ==
    {[id |-> i, name |-> "ReservationConfirmedEvent", phone |-> "p1", res |-> r, start |-> st] :
        i \in {"e1", "e2"}, r \in {"R1", ""}, st \in {<<>>, <<Iso(30, "Z")>>}}
    \cup {[id |-> i, name |-> "ReservationConfirmedEvent", phone |-> None, res |-> "R1", start |-> <<Iso(30, "Z")>>] :
        i \in {"e1", "e2"}}

CancelledEvents ==
    {[id |-> i, name |-> "ReservationCancelledEvent", phone |-> "p1", res |-> r, start |-> <<>>] :
        i \in {"e1", "e2"}, r \in {"R1", ""}}
    \cup {[id |-> "e2", name |-> "ReservationCancelledEvent", phone |-> None, res |-> "R1",
           start |-> <<>>]}

OtherEvents ==
    {[id |-> i, name |-> n, phone |-> "p1", res |-> "R1", start |-> <<>>] :
        i \in {"e1", "e2"}, n \in {"ReservationCreatedEvent", "ReservationDoneEvent"}}

IncompleteEvents ==
    {[id |-> None, name |-> "ReservationConfirmedEvent", phone |-> "p1", res |-> "R1", start |-> <<Iso(30, "Z")>>],
     [id |-> "e1", name |-> None, phone |-> "p1", res |-> "R1", start |-> <<Iso(30, "Z")>>]}

Events == ConfirmedEvents \cup CancelledEvents \cup OtherEvents \cup IncompleteEvents

EventIds == {"e1", "e2"}

\* extract_fields, for the fields the templates and the scheduler read
extract_fields(ev) ==
    [customer_name |-> "Ali",
     reservation_number |-> ev.res,
     product_name |-> "",
     reservation_date |-> IF parse_dt(ev.start) = <<>> THEN "" ELSE "date",
     start_time |-> IF parse_dt(ev.start) = <<>> THEN "" ELSE "time",
     end_time |-> "",
     start_dt_iso |-> fmt_iso(ev.start),
     invoice_link |-> "",
     reservation_after_minutes |-> "",
     allowed_late_minutes |-> ""]

NoEvent == [id |-> None, name |-> None, phone |-> None, res |-> "", start |-> <<>>]
NoResponse == [ok |-> FALSE, conversationeventid |-> None, contactid |-> None,
               status |-> None, message |-> None]
NoLocals == [ev |-> NoEvent, success |-> FALSE, provider_response |-> None,
             response_json |-> NoResponse, admin |-> 0]

IngestInit ==
    /\ send_mode \in {"template", "text"}
    /\ admin_numbers \in {<<>>, <<"a1", "a2">>}
    /\ ppc = [p \in Procs |-> "idle"]
    /\ pev = [p \in Procs |-> NoLocals]
    /\ provider_calls = EmptyBag
    /\ event_outcome = [i \in EventIds |-> "none"]

WorkerInit ==
    /\ wpc = [w \in AllWorkers |-> "sleep"]
    /\ wbatch = [w \in AllWorkers |-> <<>>]
    /\ widx = [w \in AllWorkers |-> 0]
    /\ wlogs = [w \in AllWorkers |-> <<>>]
    /\ test_runs = 0

\* one send issued to the provider; event, res and job say on whose behalf
Call(path, kind, template, to, parameters, event, res, job) ==
    [path |-> path, kind |-> kind, template |-> template, to |-> to,
     nparams |-> Len(parameters), event |-> event, res |-> res, job |-> job]

Issue(call) == provider_calls' = provider_calls (+) SetToBag({call})

\* what a send returns or raises: a 2xx answer, a non-2xx answer, or a
\* transport exception (token fetch included)
SendOutcomes ==
    { [raised |-> FALSE, ok |-> TRUE, conversationeventid |-> "cv1", contactid |-> "ct1",
       status |-> "accepted", message |-> None],
      [raised |-> FALSE, ok |-> FALSE, conversationeventid |-> None, contactid |-> None,
       status |-> None, message |-> "error"],
      [raised |-> TRUE, ok |-> FALSE, conversationeventid |-> None, contactid |-> None,
       status |-> None, message |-> None] }

ResponseJson(o) ==
    [ok |-> o.ok, conversationeventid |-> o.conversationeventid, contactid |-> o.contactid,
     status |-> o.status, message |-> o.message]

\* format_provider_response(success, body)
format_provider_response(success, response_body) ==
    [success |-> success, response |-> response_body]

\* uq_webhook_external_event_id: the insert raises IntegrityError
WebhookEventExists(external_event_id) ==
    \E i \in DOMAIN webhook_events : webhook_events[i].external_event_id = external_event_id

\* the table without its unique constraint
DuplicateNeverDetected(external_event_id) == FALSE

\* the dedup gate: db.add(event); db.commit() raised IntegrityError
DedupConflict(external_event_id) == WebhookEventExists(external_event_id)

\* uq_sched_res_tpl_to; NULL reservation numbers never conflict
SchedConflict(job) ==
    /\ job.reservation_number # None
    /\ \E j \in DOMAIN scheduled_messages :
          /\ scheduled_messages[j].reservation_number = job.reservation_number
          /\ scheduled_messages[j].template_name = job.template_name
          /\ scheduled_messages[j].to_phone = job.to_phone

\* scheduled_messages without uq_sched_res_tpl_to
SchedConflictNever(job) == FALSE

\* the insert of a job is refused with IntegrityError
SchedInsertRefused(job) == SchedConflict(job)

\* _schedule_reminder: the store after the attempt
ScheduleReminder(fields, phone, external_event_id) ==
    IF parse_dt(fields.start_dt_iso) = <<>>
    THEN UNCHANGED <<scheduled_messages, job_seq>>
    ELSE LET start_dt == parse_dt(fields.start_dt_iso)[1]
             start_utc == start_utc_of(start_dt)
             run_at == start_utc - REMINDER_BEFORE_MINUTES
             reminder_fields == [fields EXCEPT !.reservation_after_minutes = "20",
                                               !.allowed_late_minutes = "10"]
             job == [external_event_id |-> external_event_id,
                     reservation_number |-> IF fields.reservation_number = "" THEN None
                                            ELSE fields.reservation_number,
                     to_phone |-> phone,
                     template_name |-> "reservation_reminder",
                     params |-> build_template_parameters("reservation_reminder",
                                    reminder_fields, EMPTY_PARAM_PLACEHOLDER),
                     run_at |-> run_at,
                     status |-> "pending",
                     attempts |-> 0,
                     last_error |-> None]
         IN IF run_at <= utcnow \/ SchedInsertRefused(job)
            THEN UNCHANGED <<scheduled_messages, job_seq>>
            ELSE /\ job_seq' = job_seq + 1
                 /\ scheduled_messages' = scheduled_messages @@ (job_seq + 1 :> job)

\* _cancel_reminders: the bulk UPDATE ... SET status = 'canceled'
CancelReminders(fields) ==
    /\ scheduled_messages' =
          [j \in DOMAIN scheduled_messages |->
              IF /\ fields.reservation_number # ""
                 /\ scheduled_messages[j].reservation_number = fields.reservation_number
                 /\ scheduled_messages[j].template_name = "reservation_reminder"
                 /\ scheduled_messages[j].status = "pending"
              THEN [scheduled_messages[j] EXCEPT !.status = "canceled"]
              ELSE scheduled_messages[j]]
    /\ UNCHANGED job_seq

\* the client MessageLog row (`# --- Save MessageLog (client) ---`)
ClientLog(ev, template_name, success, provider_response, response_json) ==
    SendLog(ev.phone, template_name, IF success THEN "success" ELSE "failed",
            provider_response, response_json, HATIF_CHANNEL_ID)

\* the send the admin fan-out issues to admin number k
AdminCall(ev, k) ==
    Call("admin", "template", "admin_reservation_confirmed", admin_numbers[k],
         build_template_parameters("admin_reservation_confirmed", extract_fields(ev),
                                   EMPTY_PARAM_PLACEHOLDER),
         ev.id, ev.res, 0)

\* `template_name == "reservation_confirmed" and success`
PostSendRuns(template_name, success) ==
    template_name = "reservation_confirmed" /\ success

\* the post-send branch taken whatever the client send reported
PostSendAlways(template_name, success) ==
    template_name = "reservation_confirmed"

\* the post-send branch taken on the failure of the client send instead
PostSendInverted(template_name, success) ==
    template_name = "reservation_confirmed" /\ ~success

\* the guard of admin fan-out and reminder scheduling
ConfirmedPostActions(template_name, success) == PostSendRuns(template_name, success)

\* the background task aborted before the client MessageLog was saved
FinishWithoutLog(p, ev, template_name, success, provider_response, response_json, before) ==
    /\ message_logs' = IF success
                          THEN (message_logs \o before) \o
                               <<ClientLog(ev, template_name, success, provider_response,
                                           response_json)>>
                          ELSE message_logs \o before
    /\ ppc' = [ppc EXCEPT ![p] = "done"]
    /\ pev' = [pev EXCEPT ![p] = NoLocals]

\* the background task ends: the client MessageLog is written after the
\* rows in `before`, and the session is closed
Finish(p, ev, template_name, success, provider_response, response_json, before) ==
    /\ message_logs' = (message_logs \o before) \o
          <<ClientLog(ev, template_name, success, provider_response, response_json)>>
    /\ ppc' = [ppc EXCEPT ![p] = "done"]
    /\ pev' = [pev EXCEPT ![p] = NoLocals]

Outcome(ev, success) ==
    event_outcome' = [event_outcome EXCEPT ![ev.id] = IF success THEN "success" ELSE "failed"]

\* a check that asks for the external id only
MissingIdOnly(ev) == ev.id = None

\* `if not external_event_id or not event_name`
MissingFields(ev) == ev.id = None \/ ev.name = None

\* POST /webhooks/rekaz with a body that json.loads rejects: logged,
\* acknowledged, no background task
DeliverUnparseable(p) ==
    /\ UNCHANGED <<tokenVars, hatifVars, workerVars, fnVars>>
    /\ ppc[p] = "idle"
    /\ IF p = 1 THEN TRUE ELSE ppc[p - 1] # "idle"
    /\ ppc' = [ppc EXCEPT ![p] = "invalid_json"]
    /\ UNCHANGED <<storeVars, send_mode, admin_numbers, pev, provider_calls, event_outcome>>

\* a pipeline without the phone check
PhoneNeverMissing(ev) == FALSE

\* `if not phone`
MissingPhone(ev) == ev.phone = None

\* POST /webhooks/rekaz with a parseable body, and _process_rekaz_webhook
\* up to its first await
Deliver(p, ev) ==
    /\ UNCHANGED <<tokenVars, hatifVars, workerVars, fnVars>>
    /\ ppc[p] = "idle"
    /\ IF p = 1 THEN TRUE ELSE ppc[p - 1] # "idle"
    /\ UNCHANGED <<utcnow, sent_notifications, send_mode, admin_numbers>>
    /\ IF MissingFields(ev) \/ DedupConflict(ev.id)
       THEN \* rekaz_webhook_missing_fields / rekaz_webhook_duplicate_skipped
            /\ ppc' = [ppc EXCEPT ![p] = IF MissingFields(ev) THEN "dropped"
                                         ELSE "duplicate"]
            /\ UNCHANGED <<webhook_events, message_logs, scheduled_messages, job_seq, pev,
                           provider_calls, event_outcome>>
       ELSE LET template_name == map_event_to_template(ev.name)
                fields == extract_fields(ev)
                parameters == build_template_parameters(template_name, fields,
                                                        EMPTY_PARAM_PLACEHOLDER)
            IN /\ webhook_events' = Append(webhook_events,
                     [external_event_id |-> ev.id, event_name |-> ev.name, phone |-> ev.phone,
                      payload_json |-> ev])
               /\ IF MissingPhone(ev)
                  THEN /\ Finish(p, ev, template_name, FALSE,
                                 format_provider_response(FALSE, "missing_phone"), NoResponse, <<>>)
                       /\ Outcome(ev, FALSE)
                       /\ UNCHANGED <<scheduled_messages, job_seq, provider_calls>>
                  ELSE IF send_mode = "text"
                  THEN /\ Issue(Call("client", "text", None, ev.phone, <<>>, ev.id, ev.res, 0))
                       /\ ppc' = [ppc EXCEPT ![p] = "client_wait"]
                       /\ pev' = [pev EXCEPT ![p] = [NoLocals EXCEPT !.ev = ev]]
                       /\ UNCHANGED <<message_logs, scheduled_messages, job_seq, event_outcome>>
                  ELSE IF template_name = None
                  THEN /\ Finish(p, ev, template_name, FALSE,
                                 format_provider_response(FALSE, "unsupported_event"),
                                 NoResponse, <<>>)
                       /\ Outcome(ev, FALSE)
                       /\ UNCHANGED <<scheduled_messages, job_seq, provider_calls>>
                  ELSE IF ParamCountMismatch(template_name, parameters)
                  THEN /\ Finish(p, ev, template_name, FALSE,
                                 format_provider_response(FALSE, "param_count_mismatch"),
                                 NoResponse, <<>>)
                       /\ Outcome(ev, FALSE)
                       /\ IF template_name = "reservation_cancelled"
                          THEN CancelReminders(fields)
                          ELSE UNCHANGED <<scheduled_messages, job_seq>>
                       /\ UNCHANGED provider_calls
                  ELSE /\ Issue(Call("client", "template", template_name, ev.phone, parameters,
                                     ev.id, ev.res, 0))
                       /\ ppc' = [ppc EXCEPT ![p] = "client_wait"]
                       /\ pev' = [pev EXCEPT ![p] = [NoLocals EXCEPT !.ev = ev]]
                       /\ UNCHANGED <<message_logs, scheduled_messages, job_seq, event_outcome>>

\* the client send returns or raises; post-send actions up to the next await
ClientSendDone(p, o) ==
    /\ UNCHANGED <<tokenVars, hatifVars, workerVars, fnVars>>
    /\ ppc[p] = "client_wait"
    /\ UNCHANGED <<utcnow, sent_notifications, send_mode, admin_numbers, webhook_events>>
    /\ LET ev == pev[p].ev
           template_name == map_event_to_template(ev.name)
           success == ~o.raised /\ o.ok
           provider_response == format_provider_response(success,
                                    IF o.raised THEN "exception" ELSE "body")
           response_json == IF o.raised THEN NoResponse ELSE ResponseJson(o)
       IN /\ Outcome(ev, success)
          /\ IF send_mode # "text" /\ ConfirmedPostActions(template_name, success)
                /\ admin_numbers # <<>>
             THEN /\ Issue(AdminCall(ev, 1))
                  /\ ppc' = [ppc EXCEPT ![p] = "admin_wait"]
                  /\ pev' = [pev EXCEPT ![p] = [ev |-> ev, success |-> success,
                                provider_response |-> provider_response,
                                response_json |-> response_json, admin |-> 1]]
                  /\ UNCHANGED <<message_logs, scheduled_messages, job_seq>>
             ELSE /\ Finish(p, ev, template_name, success, provider_response, response_json, <<>>)
                  /\ UNCHANGED provider_calls
                  /\ IF send_mode # "text" /\ ConfirmedPostActions(template_name, success)
                     THEN ScheduleReminder(extract_fields(ev), ev.phone, ev.id)
                     ELSE IF send_mode # "text" /\ template_name = "reservation_cancelled"
                     THEN CancelReminders(extract_fields(ev))
                     ELSE UNCHANGED <<scheduled_messages, job_seq>>

\* a fan-out that gives up the remaining admin numbers at the first send
\* that does not succeed
AdminSendDoneOrGiveUp(p, o) ==
    /\ UNCHANGED <<tokenVars, hatifVars, workerVars, fnVars>>
    /\ ppc[p] = "admin_wait"
    /\ UNCHANGED <<utcnow, sent_notifications, send_mode, admin_numbers, webhook_events,
                   event_outcome>>
    /\ LET l == pev[p]
           ev == l.ev
           k == l.admin
           success == ~o.raised /\ o.ok
           admin_log == IF o.raised THEN <<>>
                        ELSE <<SendLog(admin_numbers[k], "admin_reservation_confirmed",
                                       IF success THEN "success" ELSE "failed",
                                       format_provider_response(success, "body"),
                                       ResponseJson(o), HATIF_CHANNEL_ID)>>
       IN IF k < Len(admin_numbers) /\ success
          THEN /\ Issue(AdminCall(ev, k + 1))
               /\ message_logs' = message_logs \o admin_log
               /\ pev' = [pev EXCEPT ![p].admin = k + 1]
               /\ UNCHANGED <<ppc, scheduled_messages, job_seq>>
          ELSE /\ ScheduleReminder(extract_fields(ev), ev.phone, ev.id)
               /\ Finish(p, ev, map_event_to_template(ev.name), l.success,
                         l.provider_response, l.response_json, admin_log)
               /\ UNCHANGED provider_calls

\* one admin send returns or raises; the loop goes on, then the reminder is
\* scheduled and the client MessageLog saved
AdminSendDone(p, o) ==
    /\ UNCHANGED <<tokenVars, hatifVars, workerVars, fnVars>>
    /\ ppc[p] = "admin_wait"
    /\ UNCHANGED <<utcnow, sent_notifications, send_mode, admin_numbers, webhook_events,
                   event_outcome>>
    /\ LET l == pev[p]
           ev == l.ev
           k == l.admin
           success == ~o.raised /\ o.ok
           admin_log == IF o.raised THEN <<>>
                        ELSE <<SendLog(admin_numbers[k], "admin_reservation_confirmed",
                                       IF success THEN "success" ELSE "failed",
                                       format_provider_response(success, "body"),
                                       ResponseJson(o), HATIF_CHANNEL_ID)>>
       IN IF k < Len(admin_numbers)
          THEN /\ Issue(AdminCall(ev, k + 1))
               /\ message_logs' = message_logs \o admin_log
               /\ pev' = [pev EXCEPT ![p].admin = k + 1]
               /\ UNCHANGED <<ppc, scheduled_messages, job_seq>>
          ELSE /\ ScheduleReminder(extract_fields(ev), ev.phone, ev.id)
               /\ Finish(p, ev, map_event_to_template(ev.name), l.success,
                         l.provider_response, l.response_json, admin_log)
               /\ UNCHANGED provider_calls

Min(a, b) == IF a <= b THEN a ELSE b

\* a SELECT without the run_at condition
PendingJobs ==
    {j \in DOMAIN scheduled_messages :
        /\ scheduled_messages[j].status = "pending"
        /\ scheduled_messages[j].attempts < MAX_ATTEMPTS}

\* the tick's SELECT: pending, due, attempts below the maximum
DueJobs ==
    {j \in DOMAIN scheduled_messages :
        /\ scheduled_messages[j].status = "pending"
        /\ scheduled_messages[j].run_at <= utcnow
        /\ scheduled_messages[j].attempts < MAX_ATTEMPTS}

\* the first n of the rows S by ascending run_at; rows with equal run_at
\* come in any order
RECURSIVE OrderedPrefixes(_, _)
OrderedPrefixes(S, n) ==
    IF n = 0 \/ S = {}
    THEN {<<>>}
    ELSE LET first == {j \in S : \A i \in S :
                          scheduled_messages[j].run_at <= scheduled_messages[i].run_at}
         IN UNION {{<<j>> \o t : t \in OrderedPrefixes(S \ {j}, n - 1)} : j \in first}

\* .order_by(run_at.asc()).limit(BATCH_SIZE): the orders the store may return
Batches == OrderedPrefixes(DueJobs, BATCH_SIZE)

\* `job.attempts += 1` on the k-th job of the session
BeginJob(batch, k) == [batch EXCEPT ![k].row.attempts = @ + 1]

\* _tick: the SELECT, and the first job up to the await inside the send
TickSelect(w) ==
    /\ UNCHANGED <<tokenVars, hatifVars, fnVars>>
    /\ wpc[w] = "sleep"
    /\ DueJobs # {}
    /\ \E b \in Batches :
          wbatch' = [wbatch EXCEPT ![w] =
              BeginJob([k \in DOMAIN b |-> [id |-> b[k], loaded |-> scheduled_messages[b[k]],
                                            row |-> scheduled_messages[b[k]]]], 1)]
    /\ widx' = [widx EXCEPT ![w] = 1]
    /\ wpc' = [wpc EXCEPT ![w] = "job_token"]
    /\ UNCHANGED <<storeVars, ingestVars, wlogs, test_runs>>

\* send_whatsapp_template has its token and posts to the provider
TickIssue(w) ==
    /\ UNCHANGED <<tokenVars, hatifVars, fnVars>>
    /\ wpc[w] = "job_token"
    /\ LET j == wbatch[w][widx[w]]
       IN Issue(Call("reminder", "template", j.row.template_name, j.row.to_phone,
                     j.row.params, j.row.external_event_id, j.row.reservation_number, j.id))
    /\ wpc' = [wpc EXCEPT ![w] = "job_wait"]
    /\ UNCHANGED <<storeVars, send_mode, admin_numbers, ppc, pev, event_outcome, wbatch, widx,
                   wlogs, test_runs>>

\* a job given up at its first failed send
AfterSendGivesUp(row, o) ==
    IF ~o.raised /\ o.ok
    THEN [row EXCEPT !.status = "sent", !.last_error = None]
    ELSE [row EXCEPT !.last_error = IF o.raised THEN "exception" ELSE "body",
                     !.status = "failed"]

\* the in-memory job after its send returned or raised
AfterSend(row, o) ==
    IF ~o.raised /\ o.ok
    THEN [row EXCEPT !.status = "sent", !.last_error = None]
    ELSE [row EXCEPT !.last_error = IF o.raised THEN "exception" ELSE "body",
                     !.status = IF row.attempts >= MAX_ATTEMPTS THEN "failed" ELSE @]

\* db.commit(): the UPDATE of one job writes the attributes the session changed
Flushed(stored, j) ==
    [stored EXCEPT !.attempts = j.row.attempts,
                   !.status = IF j.row.status # j.loaded.status THEN j.row.status ELSE @,
                   !.last_error = IF j.row.last_error # j.loaded.last_error
                                  THEN j.row.last_error ELSE @]

\* a loop body without its try/except: a raised send ends the tick, and the
\* session is closed with nothing committed
JobDoneAbortsOnRaise(w, o) ==
    LET k == widx[w]
        batch == [wbatch[w] EXCEPT ![k].row = AfterSend(@, o)]
        j == wbatch[w][k]
        logs == Append(wlogs[w],
                       SendLog(j.row.to_phone, j.row.template_name,
                               IF o.ok THEN "success" ELSE "failed",
                               format_provider_response(o.ok, "body"),
                               ResponseJson(o), HATIF_CHANNEL_ID))
    IN IF ~o.raised /\ k < Len(batch)
       THEN /\ wbatch' = [wbatch EXCEPT ![w] = BeginJob(batch, k + 1)]
            /\ widx' = [widx EXCEPT ![w] = k + 1]
            /\ wlogs' = [wlogs EXCEPT ![w] = logs]
            /\ wpc' = [wpc EXCEPT ![w] = "job_token"]
            /\ UNCHANGED <<scheduled_messages, message_logs>>
       ELSE /\ IF ~o.raised /\ \A x \in DOMAIN batch : batch[x].id \in DOMAIN scheduled_messages
               THEN /\ scheduled_messages' =
                          [id \in DOMAIN scheduled_messages |->
                              IF \E x \in DOMAIN batch : batch[x].id = id
                              THEN Flushed(scheduled_messages[id],
                                           batch[CHOOSE x \in DOMAIN batch : batch[x].id = id])
                              ELSE scheduled_messages[id]]
                    /\ message_logs' = message_logs \o logs
               ELSE UNCHANGED <<scheduled_messages, message_logs>>
            /\ wbatch' = [wbatch EXCEPT ![w] = <<>>]
            /\ widx' = [widx EXCEPT ![w] = 0]
            /\ wlogs' = [wlogs EXCEPT ![w] = <<>>]
            /\ wpc' = [wpc EXCEPT ![w] = "sleep"]

\* the rest of the loop body for the current job, then the next job or the commit
JobDone(w, o) ==
    LET k == widx[w]
        batch == [wbatch[w] EXCEPT ![k].row = AfterSend(@, o)]
        j == wbatch[w][k]
        logs == IF o.raised THEN wlogs[w]
                ELSE Append(wlogs[w],
                        SendLog(j.row.to_phone, j.row.template_name,
                                IF o.ok THEN "success" ELSE "failed",
                                format_provider_response(o.ok, "body"),
                                ResponseJson(o), HATIF_CHANNEL_ID))
    IN IF k < Len(batch)
       THEN /\ wbatch' = [wbatch EXCEPT ![w] = BeginJob(batch, k + 1)]
            /\ widx' = [widx EXCEPT ![w] = k + 1]
            /\ wlogs' = [wlogs EXCEPT ![w] = logs]
            /\ wpc' = [wpc EXCEPT ![w] = "job_token"]
            /\ UNCHANGED <<scheduled_messages, message_logs>>
       ELSE /\ IF \A x \in DOMAIN batch : batch[x].id \in DOMAIN scheduled_messages
               THEN /\ scheduled_messages' =
                          [id \in DOMAIN scheduled_messages |->
                              IF \E x \in DOMAIN batch : batch[x].id = id
                              THEN Flushed(scheduled_messages[id],
                                           batch[CHOOSE x \in DOMAIN batch : batch[x].id = id])
                              ELSE scheduled_messages[id]]
                    /\ message_logs' = message_logs \o logs
               ELSE \* a loaded row is gone: the flush raises, nothing is committed
                    UNCHANGED <<scheduled_messages, message_logs>>
            /\ wbatch' = [wbatch EXCEPT ![w] = <<>>]
            /\ widx' = [widx EXCEPT ![w] = 0]
            /\ wlogs' = [wlogs EXCEPT ![w] = <<>>]
            /\ wpc' = [wpc EXCEPT ![w] = "sleep"]

\* the send of the current job returns (2xx or not) or raises
TickSendDone(w, o) ==
    /\ UNCHANGED <<tokenVars, hatifVars, fnVars>>
    /\ wpc[w] = "job_wait"
    /\ JobDone(w, o)
    /\ UNCHANGED <<utcnow, webhook_events, sent_notifications, job_seq, ingestVars, test_runs>>

\* get_access_token raises: the job's send fails before anything is posted
TickTokenFailed(w) ==
    /\ UNCHANGED <<tokenVars, hatifVars, fnVars>>
    /\ wpc[w] = "job_token"
    /\ JobDone(w, [raised |-> TRUE, ok |-> FALSE, conversationeventid |-> None,
                   contactid |-> None, status |-> None, message |-> None])
    /\ UNCHANGED <<utcnow, webhook_events, sent_notifications, job_seq, ingestVars, test_runs>>

\* test_reminder.py main(): old TEST- jobs are deleted, one job is inserted
\* for the given phone with params ["Test User"]
test_reminder_main ==
    /\ UNCHANGED <<tokenVars, hatifVars, fnVars>>
    /\ test_runs < MaxTestRuns
    /\ test_runs' = test_runs + 1
    /\ LET kept == {j \in DOMAIN scheduled_messages :
                       scheduled_messages[j].reservation_number # "TEST-tag"}
           job == [external_event_id |-> "test-reminder-tag",
                   reservation_number |-> "TEST-tag",
                   to_phone |-> TestPhone,
                   template_name |-> "reservation_reminder",
                   params |-> <<"Test User">>,
                   run_at |-> utcnow + TEST_DELAY_MINUTES,
                   status |-> "pending",
                   attempts |-> 0,
                   last_error |-> None]
       IN scheduled_messages' =
             [j \in kept |-> scheduled_messages[j]] @@ (job_seq + 1 :> job)
    /\ job_seq' = job_seq + 1
    /\ UNCHANGED <<utcnow, webhook_events, message_logs, sent_notifications, ingestVars,
                   wpc, wbatch, widx, wlogs>>

\* wall-clock time passes
AdvanceTime ==
    /\ UNCHANGED <<tokenVars, hatifVars, fnVars>>
    /\ \E t \in TimePoints : t > utcnow /\ utcnow' = t
    /\ UNCHANGED <<webhook_events, message_logs, sent_notifications, scheduled_messages,
                   job_seq, ingestVars, workerVars>>

\* the events and client-send outcomes the worker specification draws from
WorkerEvents ==
    {[id |-> "e1", name |-> "ReservationConfirmedEvent", phone |-> "p1", res |-> "R1", start |-> <<Iso(30, "Z")>>],
     [id |-> "e2", name |-> "ReservationCancelledEvent", phone |-> "p1", res |-> "R1", start |-> <<>>]}

OkOutcomes == {o \in SendOutcomes : ~o.raised /\ o.ok}

WorkerNext(w) ==
    \/ TickSelect(w)
    \/ TickIssue(w)
    \/ \E o \in SendOutcomes : TickSendDone(w, o)
    \/ TickTokenFailed(w)

(***************************************************************************)
(* ------------------  Pure helpers (services/rekaz.py)  ----------------- *)
(***************************************************************************)

\* a str | None value: a string is the sequence of its characters
Null == [null |-> TRUE, s |-> <<>>]
Str(s) == [null |-> FALSE, s |-> s]

Digits == {"0", "1", "2", "3", "4", "5", "6", "7", "8", "9"}
IsDigit(c) == c \in Digits

\* str.startswith
StartsWith(s, prefix) ==
    Len(s) >= Len(prefix) /\ SubSeq(s, 1, Len(prefix)) = prefix

\* s[n:]
From(s, n) == SubSeq(s, n + 1, Len(s))

CountryCode == <<"9", "6", "6">>

\* the three rewrites as one chain in which the first that applies is the
\* only one applied
NormalizeFirstMatch(phone) ==
    IF phone.null \/ phone.s = <<>>
    THEN Null
    ELSE LET digits == SelectSeq(phone.s, IsDigit)
         IN Str(IF StartsWith(digits, <<"0", "0">>) THEN From(digits, 2)
                ELSE IF StartsWith(digits, <<"0">>) /\ Len(digits) = 10
                THEN CountryCode \o From(digits, 1)
                ELSE IF StartsWith(digits, <<"5">>) /\ Len(digits) = 9
                THEN CountryCode \o digits
                ELSE digits)

\* normalize_phone: `if` strips the 00, then `if ... elif` on what is left
normalize_phone(phone) ==
    IF phone.null \/ phone.s = <<>>
    THEN Null
    ELSE LET original == SelectSeq(phone.s, IsDigit)
             digits == IF StartsWith(original, <<"0", "0">>) THEN From(original, 2)
                       ELSE original
         IN Str(IF StartsWith(digits, <<"0">>) /\ Len(digits) = 10
                THEN CountryCode \o From(digits, 1)
                ELSE IF StartsWith(digits, <<"5">>) /\ Len(digits) = 9
                THEN CountryCode \o digits
                ELSE digits)

\* the phone strings normalized: a prefix, then the first digits of a
\* subscriber number, with or without punctuation, and the missing values
Subscriber == <<"5", "1", "2", "3", "4", "5", "6", "7", "8">>
PhonePrefixes ==
    {<<>>, <<"0">>, <<"0", "0">>, <<"0", "0", "0">>, <<"+">>, <<"9", "6", "6">>,
     <<"0", "0", "9", "6", "6">>, <<"+", "9", "6", "6", " ">>, <<"0", "-">>}
PhoneBodies ==
    {SubSeq(Subscriber, 1, n) : n \in 0..Len(Subscriber)}
    \cup {SubSeq(Subscriber, 2, n) : n \in 2..Len(Subscriber)}
    \cup {<<"5", "1", "-">> \o SubSeq(Subscriber, 3, n) : n \in 3..Len(Subscriber)}
PhoneInputs ==
    {Null} \cup {Str(a \o b) : a \in PhonePrefixes, b \in PhoneBodies}

\* the calls of build_template_parameters: every template with a slot list
\* and one without, field maps over FieldKeys in which a field is missing,
\* empty or set, and a placeholder that is set or empty
FieldKeys == {"customer_name", "reservation_number", "product_name", "start_time"}
FieldValues == {"", "x", "y"}
Placeholders == {"-", ""}
ParamInputs ==
    {[template_name |-> t, fields |-> f, placeholder |-> ph] :
        t \in DOMAIN TEMPLATE_PARAM_SPECS \cup {"unknown"},
        f \in UNION {[K -> FieldValues] : K \in SUBSET FieldKeys},
        ph \in Placeholders}

\* one call of build_template_parameters
BuildTemplateParameters ==
    /\ UNCHANGED <<tokenVars, storeVars, hatifVars, ingestVars, workerVars>>
    /\ fn_arg # <<>>
    /\ fn_result = <<>>
    /\ fn_result' = <<build_template_parameters(fn_arg[1].template_name, fn_arg[1].fields,
                                                fn_arg[1].placeholder)>>
    /\ UNCHANGED fn_arg

\* one call of normalize_phone
NormalizePhone ==
    /\ UNCHANGED <<tokenVars, storeVars, hatifVars, ingestVars, workerVars>>
    /\ fn_arg # <<>>
    /\ fn_result = <<>>
    /\ fn_result' = <<normalize_phone(fn_arg[1])>>
    /\ UNCHANGED fn_arg

(***************************************************************************)
(* --------------------------  Specifications  --------------------------- *)
(***************************************************************************)

\* no call of a pure helper is under way
FnInit == fn_arg = <<>> /\ fn_result = <<>>

Init == TokenInit /\ StoreInit /\ HatifInit /\ IngestInit /\ WorkerInit /\ FnInit

\* inbound events: every event, every send outcome, both send modes, with
\* and without admin numbers

Next ==
    \/ \E p \in Procs, ev \in Events : Deliver(p, ev)
    \/ \E p \in Procs : DeliverUnparseable(p)
    \/ \E p \in Procs, o \in SendOutcomes : ClientSendDone(p, o)
    \/ \E p \in Procs, o \in SendOutcomes : AdminSendDone(p, o)
    \/ AdvanceTime

Spec == Init /\ [][Next]_vars

\* the reminder worker with the events that schedule and cancel its jobs and
\* the test script, in template mode without admin numbers
InitDefault == Init /\ admin_numbers = <<>> /\ send_mode = "template"

WorkerSpecNext ==
    \/ \E p \in Procs, ev \in WorkerEvents : Deliver(p, ev)
    \/ \E p \in Procs, o \in OkOutcomes : ClientSendDone(p, o)
    \/ \E w \in Workers : WorkerNext(w)
    \/ test_reminder_main
    \/ AdvanceTime

SpecWorker == InitDefault /\ [][WorkerSpecNext]_vars

\* the application process as app/main.py builds it. Importing the module
\* configures logging, creates the tables and the FastAPI app and includes
\* the two routers; it registers no startup hook or lifespan and creates no
\* task, so the process serves requests while no reminder_worker_loop runs
\* in it (position "no_task")
app_startup ==
    /\ UNCHANGED <<tokenVars, hatifVars, fnVars>>
    /\ wpc["w1"] = "not_started"
    /\ wpc' = [wpc EXCEPT !["w1"] = "no_task"]
    /\ UNCHANGED <<storeVars, ingestVars, wbatch, widx, wlogs, test_runs>>

Serving == wpc["w1"] # "not_started"

\* POST /webhooks/rekaz to the running process
ServedDelivery(p, ev) ==
    /\ Serving
    /\ Deliver(p, ev)

AppInit ==
    /\ TokenInit /\ StoreInit /\ HatifInit /\ IngestInit /\ FnInit
    /\ admin_numbers = <<>> /\ send_mode = "template"
    /\ wpc = [w \in AllWorkers |-> "not_started"]
    /\ wbatch = [w \in AllWorkers |-> <<>>]
    /\ widx = [w \in AllWorkers |-> 0]
    /\ wlogs = [w \in AllWorkers |-> <<>>]
    /\ test_runs = 0

AppNext ==
    \/ app_startup
    \/ \E p \in Procs, ev \in WorkerEvents : ServedDelivery(p, ev)
    \/ \E p \in Procs, o \in SendOutcomes : ClientSendDone(p, o)
    \/ test_reminder_main
    \/ AdvanceTime

\* the process starts, a send in flight returns or raises, and time passes
AppFairness ==
    /\ WF_vars(app_startup)
    /\ WF_vars(\E p \in Procs, o \in SendOutcomes : ClientSendDone(p, o))
    /\ WF_vars(AdvanceTime)

SpecApp == AppInit /\ [][AppNext]_vars /\ AppFairness

\* two instances of the process polling the same store, with the events
\* that schedule and cancel the jobs
TwoWorkersNext ==
    \/ \E p \in Procs, ev \in WorkerEvents : Deliver(p, ev)
    \/ \E p \in Procs, o \in OkOutcomes : ClientSendDone(p, o)
    \/ \E w \in AllWorkers : WorkerNext(w)
    \/ AdvanceTime

SpecTwoWorkers == InitDefault /\ [][TwoWorkersNext]_vars

\* the token cache alone
SpecToken == InitDefault /\ [][TokenNext]_vars

\* the token cache under the event loop's scheduling: a woken waiter is
\* resumed, and a fetch returns or raises (the HTTP client has a timeout)
TokenFairness ==
    /\ WF_vars(\E c \in Callers : LockAcquired(c))
    /\ WF_vars(\E c \in Callers : FetchFail(c) \/ \E e \in ExpiresIn : FetchOk(c, e))

SpecTokenLive == InitDefault /\ [][TokenNext]_vars /\ TokenFairness

\* the status correlator alone
SpecHatif == InitDefault /\ [][HatifNext]_vars

\* the status correlator with and without a shared secret, over callbacks
\* with any signature header
SignedInit ==
    /\ TokenInit /\ StoreInit /\ IngestInit /\ WorkerInit /\ FnInit
    /\ admin_numbers = <<>> /\ send_mode = "template"
    /\ hatif_count = 0
    /\ hatif_last = [payload |-> None, matched |-> 0, response |-> "none", body |-> "none",
                     bytes |-> "utf8", signature |-> <<>>]
    /\ sends_logged = 0
    /\ webhook_secret \in {"", "k1"}

SignedNext ==
    \/ \E body \in SignedBodies :
          \E signature \in SignaturesFor(body) : hatif_signed_webhook(body, signature)
    \/ \E r \in ProviderResponses : LogSend(r)

SpecSigned == SignedInit /\ [][SignedNext]_vars

\* phone normalization alone, over PhoneInputs
PhoneInit ==
    /\ TokenInit /\ StoreInit /\ HatifInit /\ IngestInit /\ WorkerInit
    /\ admin_numbers = <<>> /\ send_mode = "template"
    /\ fn_arg \in {<<x>> : x \in PhoneInputs}
    /\ fn_result = <<>>

SpecPhone == PhoneInit /\ [][NormalizePhone]_vars

\* parameter building alone, over ParamInputs
ParamInit ==
    /\ TokenInit /\ StoreInit /\ HatifInit /\ IngestInit /\ WorkerInit
    /\ admin_numbers = <<>> /\ send_mode = "template"
    /\ fn_arg \in {<<x>> : x \in ParamInputs}
    /\ fn_result = <<>>

SpecParams == ParamInit /\ [][BuildTemplateParameters]_vars

\* reminder scheduling over start date strings with and without a zone:
\* confirmed events, one reservation per event id, sent with success
StartWalls == {20, 30, 200, 210, 900}
IsoSuffixes == {"", "Z", "+00:00", "+03:00", "?"}

ScheduleEvents ==
    {[id |-> i, name |-> "ReservationConfirmedEvent", phone |-> "p1",
      res |-> IF i = "e1" THEN "R1" ELSE "R2", start |-> <<Iso(w, x)>>] :
        i \in EventIds, w \in StartWalls, x \in IsoSuffixes}

ScheduleNext ==
    \/ \E p \in Procs, ev \in ScheduleEvents : Deliver(p, ev)
    \/ \E p \in Procs, o \in OkOutcomes : ClientSendDone(p, o)
    \/ AdvanceTime

SpecSchedule == InitDefault /\ [][ScheduleNext]_vars

\* the worker alone over a store that holds more due jobs than one batch
\* takes: NumJobs reminders of as many reservations, a few of them already
\* canceled, sent or failed, found by a process that starts at one of
\* BatchTimes; _tick reads no other table, and they are left empty
NumJobs == BATCH_SIZE + 5

\* the run_at of job j: by id, against the id, or by id with the jobs at
\* the batch limit due at the same minute
BatchRunAt(order, j) ==
    CASE order = "asc" -> j
      [] order = "desc" -> NumJobs + 1 - j
      [] order = "tie" -> IF j = BATCH_SIZE + 4 THEN j - 1 ELSE j

BatchJob(order, j) ==
    [external_event_id |-> <<"e", j>>,
     reservation_number |-> <<"R", j>>,
     to_phone |-> "p1",
     template_name |-> "reservation_reminder",
     params |-> <<"Ali", "20", "10">>,
     run_at |-> BatchRunAt(order, j),
     status |-> CASE j = 3 -> "canceled" [] j = 7 -> "sent" [] j = 11 -> "failed"
                  [] OTHER -> "pending",
     attempts |-> CASE j = 7 -> 1 [] j = 11 -> MAX_ATTEMPTS [] OTHER -> 0,
     last_error |-> IF j = 11 THEN "body" ELSE None]

BatchInit ==
    /\ TokenInit /\ HatifInit /\ IngestInit /\ WorkerInit /\ FnInit
    /\ admin_numbers = <<>> /\ send_mode = "template"
    /\ utcnow \in {0, 30, 60}
    /\ webhook_events = <<>>
    /\ message_logs = <<>>
    /\ sent_notifications = {}
    /\ \E order \in {"asc", "desc", "tie"} :
          scheduled_messages = [j \in 1..NumJobs |-> BatchJob(order, j)]
    /\ job_seq = NumJobs

BatchNext ==
    \/ \E w \in Workers : TickSelect(w)
    \/ \E w \in Workers : TickIssue(w)
    \/ \E w \in Workers, o \in OkOutcomes : TickSendDone(w, o)
    \/ AdvanceTime

SpecBatch == BatchInit /\ [][BatchNext]_vars

(***************************************************************************)
(* ------------------------------  Claims  ------------------------------- *)
(***************************************************************************)

\* the provider sends in `calls`, counted with their multiplicity
CountCalls(calls) == BagCardinality([c \in calls |-> provider_calls[c]])

ClientCallsOf(id) == {c \in BagToSet(provider_calls) : c.path = "client" /\ c.event = id}
AdminCallsOf(id) == {c \in BagToSet(provider_calls) : c.path = "admin" /\ c.event = id}
JobsOf(id) == {j \in DOMAIN scheduled_messages : scheduled_messages[j].external_event_id = id}
RecordsOf(id) == {i \in DOMAIN webhook_events : webhook_events[i].external_event_id = id}

\* C1: whatever is delivered, and however the deliveries interleave, an
\* external event id has at most one WebhookEvent record, exactly one once a
\* delivery with that id has gone through or bounced off the dedup gate, and
\* at most one client send, one admin send per admin number and one
\* scheduled job were made for it.
C1_ProcessedOnce ==
    /\ \A id \in EventIds :
          /\ Cardinality(RecordsOf(id)) <= 1
          /\ CountCalls(ClientCallsOf(id)) <= 1
          /\ \A a \in Range(admin_numbers) :
                CountCalls({c \in AdminCallsOf(id) : c.to = a}) <= 1
          /\ Cardinality(JobsOf(id)) <= 1
          /\ (event_outcome[id] # "none" \/ ClientCallsOf(id) # {} \/ JobsOf(id) # {})
                => Cardinality(RecordsOf(id)) = 1
    /\ \A p \in Procs :
          /\ ppc[p] \in {"client_wait", "admin_wait"} => Cardinality(RecordsOf(pev[p].ev.id)) = 1
          /\ ppc[p] = "duplicate" => webhook_events # <<>>

\* C1 witness: a replay of an event arrives while the first delivery is
\* still waiting for its client send; it is skipped as a duplicate.
C1_Witness ==
    /\ ppc[1] = "client_wait"
    /\ ppc[2] = "duplicate"
    /\ Len(webhook_events) = 1
    /\ CountCalls(ClientCallsOf(webhook_events[1].external_event_id)) = 1

\* C2 (as claimed): when the worker posts a job's send to the provider, the
\* stored status of that job is not canceled.
C2_NoSendForCanceled ==
    [][\A w \in Workers :
          (wpc[w] = "job_token" /\ wpc'[w] = "job_wait") =>
             LET id == wbatch[w][widx[w]].id
             IN id \in DOMAIN scheduled_messages =>
                   scheduled_messages[id].status # "canceled"]_vars

\* C3: concurrent callers on a cold or expired cache share one fetch: while
\* no fetch has failed, a fetch is never started before the previous one has
\* finished nor while the token it stored is still unexpired, and every
\* caller that returned holds the token of a finished successful fetch that
\* was unexpired when the caller looked.
C3_SingleFetch ==
    /\ \A i, j \in DOMAIN fetches :
          (i < j /\ fetches[i].result # "fail") =>
             /\ fetches[i].result = "ok"
             /\ fetches[j].started >= fetches[i].expires_at
    /\ \A c \in Callers :
          cpc[c] = "returned" =>
             \E i \in DOMAIN fetches :
                /\ fetches[i].result = "ok"
                /\ cres[c].token = fetches[i].token
                /\ fetches[i].finished <= cres[c].at
                /\ cres[c].at < fetches[i].expires_at

\* C3 witness: every caller has returned the token of the one and only
\* fetch, and all but the fetching caller were queued on the lock meanwhile.
C3_Witness ==
    /\ Len(fetches) = 1
    /\ fetches[1].result = "ok"
    /\ \A c \in Callers : cpc[c] = "returned" /\ cres[c].token = fetches[1].token
    /\ Cardinality({c \in Callers : blocked[c] = "waited"}) = NumCallers - 1

\* C4 (as claimed): a caller that was queued on the lock while the fetch
\* failed gets that failure: it neither starts a fetch of its own nor
\* returns a token.
C4_FailurePropagated ==
    \A c \in Callers :
       blocked[c] = "waited_failed" => cpc[c] \in {"wait_lock", "raised"}

\* C5 (as claimed): for a reservation number and an admin number, the admin
\* confirmation is sent at most once, over all events of that reservation.
C5_OncePerReservation ==
    \A a \in Range(admin_numbers) :
       CountCalls({c \in BagToSet(provider_calls) :
                      c.path = "admin" /\ c.res = "R1" /\ c.to = a}) <= 1

\* C6 (as claimed): a callback that matches a row changes a correlation
\* field of that row only if it carries a non-empty value for the field.
C6_EmptyFieldsPreserved ==
    [][\A m \in DOMAIN message_logs :
          (hatif_count' = hatif_count + 1 /\ hatif_last'.matched = m) =>
             LET p == hatif_last'.payload
                 old == message_logs[m]
                 new == message_logs'[m]
             IN /\ Empty(p.conversation_event_id) =>
                      new.conversation_event_id = old.conversation_event_id
                /\ Empty(p.contact_id) => new.contact_id = old.contact_id
                /\ Empty(p.channel_id) => new.channel_id = old.channel_id
                /\ Empty(p.status) => new.last_status = old.last_status
                /\ Empty(ParseDatetime(p.timestamp)) => new.last_status_at = old.last_status_at
                /\ Empty(p.direction) => new.direction = old.direction
                /\ Empty(p.message_id) => new.message_id = old.message_id
                /\ Empty(p.error_code) => new.error_code = old.error_code
                /\ Empty(p.error_reason) => new.error_reason = old.error_reason]_vars

\* C7 (as claimed): a job whose stored status is sent, failed or canceled
\* keeps that status in every step.
C7_TerminalStatusFinal ==
    [][\A j \in DOMAIN scheduled_messages \cap DOMAIN scheduled_messages' :
          scheduled_messages[j].status # "pending" =>
             scheduled_messages'[j].status = scheduled_messages[j].status]_vars

\* two jobs collide on (reservation number, template, phone)
SameReminder(j1, j2) ==
    /\ scheduled_messages[j1].reservation_number = scheduled_messages[j2].reservation_number
    /\ scheduled_messages[j1].template_name = scheduled_messages[j2].template_name
    /\ scheduled_messages[j1].to_phone = scheduled_messages[j2].to_phone

\* C8 (as claimed): no two jobs share (reservation number, template, phone),
\* the jobs of events without a reservation number included.
C8_UniqueIncludingNone ==
    \A j1, j2 \in DOMAIN scheduled_messages : SameReminder(j1, j2) => j1 = j2

\* C8 (amended): no two jobs that carry a reservation number share
\* (reservation number, template, phone); and when the scheduling step of a
\* confirmed event finds a job of its reservation, template and phone, the
\* jobs stay as they are and the processing ends normally with the client
\* MessageLog of the successful send.
C8_UniquePerReservation ==
    /\ [](\A j1, j2 \in DOMAIN scheduled_messages :
            (scheduled_messages[j1].reservation_number # None /\ SameReminder(j1, j2))
               => j1 = j2)
    /\ [][\A p \in Procs :
            (/\ ppc[p] \in {"client_wait", "admin_wait"}
             /\ ppc'[p] = "done"
             /\ send_mode = "template"
             /\ pev[p].ev.name = "ReservationConfirmedEvent"
             /\ event_outcome'[pev[p].ev.id] = "success"
             /\ \E j \in DOMAIN scheduled_messages :
                   /\ scheduled_messages[j].reservation_number = pev[p].ev.res
                   /\ scheduled_messages[j].template_name = "reservation_reminder"
                   /\ scheduled_messages[j].to_phone = pev[p].ev.phone)
            => /\ scheduled_messages' = scheduled_messages
               /\ message_logs'[Len(message_logs')].template_name = "reservation_confirmed"
               /\ message_logs'[Len(message_logs')].status = "success"]_vars

\* C8 witness: two confirmed events of reservation R1, both sent with
\* success before the reminder's run time, have finished; one job exists.
C8_Witness ==
    /\ utcnow = 0
    /\ Len(webhook_events) = 2
    /\ \A i \in DOMAIN webhook_events :
          /\ webhook_events[i].event_name = "ReservationConfirmedEvent"
          /\ webhook_events[i].payload_json.res = "R1"
          /\ webhook_events[i].payload_json.start = <<Iso(30, "Z")>>
          /\ event_outcome[webhook_events[i].external_event_id] = "success"
          /\ AdminCallsOf(webhook_events[i].external_event_id) # {}
    /\ \A p \in Procs : ppc[p] = "done"
    /\ Cardinality(DOMAIN scheduled_messages) = 1

\* C9 (as claimed): every template send that reached the provider for a
\* template with a known spec carries as many parameters as the spec has slots.
C9_CountsMatch ==
    \A c \in BagToSet(provider_calls) :
       (c.kind = "template" /\ HasSpec(c.template)) =>
          c.nparams = Len(TEMPLATE_PARAM_SPECS[c.template])

\* C10: for a confirmed event whose client send did not report success, no
\* admin notification has been sent and no job has been created.
C10_FailedConfirmedSkips ==
    \A i \in DOMAIN webhook_events :
       LET e == webhook_events[i]
       IN (e.event_name = "ReservationConfirmedEvent"
             /\ event_outcome[e.external_event_id] = "failed")
          => AdminCallsOf(e.external_event_id) = {} /\ JobsOf(e.external_event_id) = {}

\* C10 witness: the template send of a confirmed event with a start time
\* was posted and did not succeed, and the processing has finished.
C10_Witness ==
    /\ send_mode = "template"
    /\ \E i \in DOMAIN webhook_events :
          LET e == webhook_events[i]
          IN /\ e.event_name = "ReservationConfirmedEvent"
             /\ e.payload_json.start = <<Iso(30, "Z")>>
             /\ event_outcome[e.external_event_id] = "failed"
             /\ ClientCallsOf(e.external_event_id) # {}
    /\ \A p \in Procs : ppc[p] # "idle" => ppc[p] = "done"
    /\ ppc[1] = "done"

\* the processes busy with event id
Working(id) == {p \in Procs : ppc[p] \in {"client_wait", "admin_wait"} /\ pev[p].ev.id = id}

\* the confirmed events whose client send reported success and whose
\* processing has finished
ConfirmedSucceeded ==
    {webhook_events[i].external_event_id : i \in
        {i \in DOMAIN webhook_events :
            /\ webhook_events[i].event_name = "ReservationConfirmedEvent"
            /\ event_outcome[webhook_events[i].external_event_id] = "success"
            /\ Working(webhook_events[i].external_event_id) = {}}}

\* the step in which process p ends the processing of a confirmed event
\* whose client send succeeded
EndsConfirmedSuccess(p) ==
    /\ ppc[p] \in {"client_wait", "admin_wait"}
    /\ ppc'[p] = "done"
    /\ pev[p].ev.name = "ReservationConfirmedEvent"
    /\ event_outcome'[pev[p].ev.id] = "success"

\* the run time the reminder-timing rule gives for a start date string: a
\* start with a zone is converted to UTC, one without is local time at UTC+3,
\* and the lead of 20 minutes is taken off
ExpectedRunAt(iso) ==
    LET startUtc == IF iso.suffix = "" THEN iso.wall - 3 * 60
                    ELSE IF iso.suffix = "+03:00" THEN iso.wall - 3 * 60
                    ELSE iso.wall
    IN startUtc - 20

\* what a scheduling attempt for event ev does to the jobs in this step
SchedulingAttempted(ev) ==
    IF \/ ev.start = <<>>
       \/ ev.start[1].suffix = "?"
       \/ ExpectedRunAt(ev.start[1]) <= utcnow
       \/ \E j \in DOMAIN scheduled_messages :
             /\ ev.res # ""
             /\ scheduled_messages[j].reservation_number = ev.res
             /\ scheduled_messages[j].template_name = "reservation_reminder"
             /\ scheduled_messages[j].to_phone = ev.phone
    THEN scheduled_messages' = scheduled_messages
    ELSE \E j \in DOMAIN scheduled_messages' \ DOMAIN scheduled_messages :
            /\ scheduled_messages'[j].external_event_id = ev.id
            /\ scheduled_messages'[j].to_phone = ev.phone
            /\ scheduled_messages'[j].template_name = "reservation_reminder"
            /\ scheduled_messages'[j].run_at = ExpectedRunAt(ev.start[1])
            /\ scheduled_messages'[j].status = "pending"
            /\ \A k \in DOMAIN scheduled_messages :
                  scheduled_messages'[k] = scheduled_messages[k]

\* C11 (as claimed): once a confirmed event whose client send succeeded has
\* been processed, in text mode or in template mode, every configured admin
\* number has been sent the admin confirmation.
C11_PostSendInBothModes ==
    \A id \in ConfirmedSucceeded : \A a \in Range(admin_numbers) :
       CountCalls({c \in AdminCallsOf(id) : c.to = a}) = 1

\* C11 (amended): in template mode, once a confirmed event whose client send
\* succeeded has been processed, every configured admin number has been sent
\* the admin confirmation once, and the step that ends the processing makes
\* the scheduling attempt; in text mode no admin send is made and no job is
\* created.
C11_PostSendInTemplateMode ==
    /\ [](send_mode = "template" =>
            \A id \in ConfirmedSucceeded : \A a \in Range(admin_numbers) :
               CountCalls({c \in AdminCallsOf(id) : c.to = a}) = 1)
    /\ [](send_mode = "text" =>
            \A id \in EventIds : AdminCallsOf(id) = {} /\ JobsOf(id) = {})
    /\ [][\A p \in Procs :
            (send_mode = "template" /\ EndsConfirmedSuccess(p))
               => SchedulingAttempted(pev[p].ev)]_vars

\* C11 witness: in template mode a confirmed event has been sent with
\* success, both admin numbers have been notified and its job exists.
C11_Witness ==
    /\ send_mode = "template"
    /\ admin_numbers # <<>>
    /\ \E id \in ConfirmedSucceeded :
          /\ CountCalls(AdminCallsOf(id)) = Len(admin_numbers)
          /\ JobsOf(id) # {}

\* the stored record of event id (there is at most one)
RecordOf(id) == webhook_events[CHOOSE i \in DOMAIN webhook_events :
                                  webhook_events[i].external_event_id = id]

\* the processing of a cancellation event with a reservation number, stored
\* under id, has completed
CancellationCompleted(id) ==
    /\ RecordsOf(id) # {}
    /\ RecordOf(id).event_name = "ReservationCancelledEvent"
    /\ RecordOf(id).payload_json.res # ""
    /\ Working(id) = {}

PendingReminders(jobs, res) ==
    {j \in DOMAIN jobs :
        /\ jobs[j].reservation_number = res
        /\ jobs[j].template_name = "reservation_reminder"
        /\ jobs[j].status = "pending"}

\* C12 (as claimed): in the step that completes the processing of a
\* cancellation event carrying reservation number R, no reminder job of R is
\* left pending.
C12_NoPendingAfterCancel ==
    [][\A id \in EventIds :
          (~CancellationCompleted(id) /\ CancellationCompleted(id)')
             => PendingReminders(scheduled_messages', RecordOf(id)'.payload_json.res) = {}]_vars

\* C13 (as claimed): every delivery-status callback whose body parses as JSON
\* is answered with the success acknowledgment; no internal error, an
\* ambiguous lookup included, reaches the sender as an error response.
C13_AlwaysAcknowledged ==
    hatif_count > 0 => hatif_last.response = "ok"

\* the events that passed the dedup gate and whose processing has finished
Completed ==
    {i \in DOMAIN webhook_events : Working(webhook_events[i].external_event_id) = {}}

\* the MessageLog rows of client sends (the others are the admin fan-out's)
ClientRows ==
    {i \in DOMAIN message_logs : message_logs[i].template_name # "admin_reservation_confirmed"}

\* C14: every event that passed the dedup gate has, once its processing has
\* finished, exactly one client MessageLog row, whichever branch was taken;
\* the row's status is success exactly when the send reported success, and the
\* step that finishes the processing is the one that appends the row, a
\* transport exception included.
C14_OneClientLogPerEvent ==
    /\ [](Cardinality(ClientRows) = Cardinality(Completed))
    /\ [](Cardinality({i \in ClientRows : message_logs[i].status = "success"})
            = Cardinality({i \in Completed :
                  event_outcome[webhook_events[i].external_event_id] = "success"}))
    /\ [](\A i \in ClientRows : message_logs[i].status \in {"success", "failed"})
    /\ [][\A q \in Procs :
            (ppc'[q] = "done" /\ ppc[q] # "done") =>
               /\ Len(message_logs') > Len(message_logs)
               /\ LET row == message_logs'[Len(message_logs')]
                      id == webhook_events'[Len(webhook_events')].external_event_id
                  IN /\ row.template_name # "admin_reservation_confirmed"
                     /\ ppc[q] # "idle" =>
                           (row.status = "success") <=> (event_outcome'[pev[q].ev.id] = "success")
                     /\ ppc[q] = "idle" =>
                           (row.status = "success") <=> (event_outcome'[id] = "success")]_vars

\* a client send raised a transport exception and its failed row is stored,
\* next to a row of a send that succeeded
C14_Witness ==
    /\ \E i \in ClientRows :
          /\ message_logs[i].status = "failed"
          /\ message_logs[i].provider_response = format_provider_response(FALSE, "exception")
    /\ \E i \in ClientRows : message_logs[i].status = "success"
    /\ \A p \in Procs : ppc[p] = "done"

\* the stored jobs whose attempt count a step increases
AttemptsCounted ==
    {j \in DOMAIN scheduled_messages \cap DOMAIN scheduled_messages' :
        scheduled_messages'[j].attempts > scheduled_messages[j].attempts}

\* C15 (as claimed): the step that stores the attempts of a tick also stores
\* one MessageLog row for each of them, whether the send succeeded, returned
\* non-2xx or raised.
C15_LogPerAttempt ==
    [][AttemptsCounted # {} =>
          Len(message_logs') - Len(message_logs) = Cardinality(AttemptsCounted)]_vars

\* C16 (as claimed): while the send of a job is in flight, the stored attempt
\* count of the job already includes the attempt, so that a tick that stops
\* there leaves the attempt counted.
C16_AttemptStoredBeforeSend ==
    \A w \in Workers :
       wpc[w] = "job_wait" =>
          LET j == wbatch[w][widx[w]]
          IN j.id \in DOMAIN scheduled_messages =>
                scheduled_messages[j.id].attempts >= j.row.attempts

\* C17: a stored attempt that failed (it left an error text) leaves the job's
\* status alone, hence pending, while the attempt count is below MAX_ATTEMPTS
\* and makes it failed when the count has reached MAX_ATTEMPTS; a stored
\* attempt that succeeded makes it sent; no job is failed with fewer than
\* MAX_ATTEMPTS attempts.
C17_FailedOnlyAtMax ==
    /\ [](\A j \in DOMAIN scheduled_messages :
            scheduled_messages[j].status = "failed" =>
               scheduled_messages[j].attempts >= MAX_ATTEMPTS)
    /\ [][\A j \in AttemptsCounted :
            LET old == scheduled_messages[j]
                new == scheduled_messages'[j]
            IN IF new.last_error = None
               THEN new.status = "sent"
               ELSE IF new.attempts < MAX_ATTEMPTS
               THEN new.status = old.status /\ new.status # "failed"
               ELSE new.status = "failed"]_vars

\* a job was retried, pending after each failed attempt, until its attempt
\* count reached MAX_ATTEMPTS and it was marked failed
C17_Witness ==
    \E j \in DOMAIN scheduled_messages :
       /\ scheduled_messages[j].status = "failed"
       /\ scheduled_messages[j].attempts = MAX_ATTEMPTS
       /\ scheduled_messages[j].last_error # None

DigitsOf(s) == SelectSeq(s, IsDigit)

\* the rule list with the first matching rule as the only one applied
FirstRuleOnly(d) ==
    IF StartsWith(d, <<"0", "0">>) THEN From(d, 2)
    ELSE IF Len(d) = 10 /\ d[1] = "0" THEN <<"9", "6", "6">> \o Tail(d)
    ELSE IF Len(d) = 9 /\ d[1] = "5" THEN <<"9", "6", "6">> \o d
    ELSE d

\* the 00 rule first, then on its result the first matching of the two
\* expansions
StripThenExpand(d) ==
    LET e == IF StartsWith(d, <<"0", "0">>) THEN From(d, 2) ELSE d
    IN IF Len(e) = 10 /\ e[1] = "0" THEN <<"9", "6", "6">> \o Tail(e)
       ELSE IF Len(e) = 9 /\ e[1] = "5" THEN <<"9", "6", "6">> \o e
       ELSE e

Canonical == Str(<<"9", "6", "6", "5", "1", "2", "3", "4", "5", "6", "7", "8">>)

\* the examples: 0512345678, 512345678 and 00966512345678 give 966512345678,
\* an empty or null input gives null
PhoneExamples ==
    /\ fn_arg[1] \in {Str(<<"0">> \o Subscriber), Str(Subscriber),
                      Str(<<"0", "0", "9", "6", "6">> \o Subscriber)}
          => fn_result[1] = Canonical
    /\ fn_arg[1] \in {Null, Str(<<>>)} => fn_result[1] = Null

\* C19 (as claimed): for every input normalize_phone returns what the rule
\* list gives when the first matching rule is the only one applied.
C19_FirstMatchWins ==
    fn_result # <<>> =>
       /\ PhoneExamples
       /\ fn_arg[1] \notin {Null, Str(<<>>)} =>
             fn_result[1] = Str(FirstRuleOnly(DigitsOf(fn_arg[1].s)))

\* C19 (amended): for every input normalize_phone returns what results from
\* stripping a leading 00 and then applying, to what is left, the first
\* matching of the two expansions; an input of 00 followed by a local number
\* is therefore expanded too.
C19_StripThenFirstMatch ==
    fn_result # <<>> =>
       /\ PhoneExamples
       /\ fn_arg[1] \notin {Null, Str(<<>>)} =>
             fn_result[1] = Str(StripThenExpand(DigitsOf(fn_arg[1].s)))

\* 00512345678 was normalized: the 00 was stripped and the 9 digits left
\* were given the country code
C19_Witness ==
    /\ fn_arg = <<Str(<<"0", "0">> \o Subscriber)>>
    /\ fn_result = <<Canonical>>

\* C20: for a template with a known slot list, build_template_parameters
\* returns one entry per slot, in slot order: the field's value when the field
\* is present and non-empty, the placeholder when it is missing or empty
\* (slots [customer_name, reservation_number] with fields {customer_name: x}
\* give [x, placeholder]); with a non-empty placeholder no entry is empty.
C20_OneEntryPerSlot ==
    fn_result # <<>> =>
       LET a == fn_arg[1]
           r == fn_result[1]
       IN a.template_name \in DOMAIN TEMPLATE_PARAM_SPECS =>
             LET slots == TEMPLATE_PARAM_SPECS[a.template_name]
             IN /\ Len(r) = Len(slots)
                /\ \A k \in 1..Len(slots) :
                      IF slots[k] \in DOMAIN a.fields
                      THEN IF a.fields[slots[k]] = "" THEN r[k] = a.placeholder
                           ELSE r[k] = a.fields[slots[k]]
                      ELSE r[k] = a.placeholder
                /\ a.placeholder # "" => \A k \in 1..Len(r) : r[k] # ""
                /\ (a.template_name = "reservation_cancelled"
                      /\ a.fields = [n \in {"customer_name"} |-> "x"])
                     => r = <<"x", a.placeholder>>

\* slots [customer_name, reservation_number] were filled from the fields
\* {customer_name: x, product_name: ""} with the placeholder "-"
C20_Witness ==
    /\ fn_arg # <<>>
    /\ fn_arg[1].template_name = "reservation_cancelled"
    /\ fn_arg[1].fields = [n \in {"customer_name", "product_name"} |->
                              IF n = "customer_name" THEN "x" ELSE ""]
    /\ fn_arg[1].placeholder = "-"
    /\ fn_result = <<(<<"x", "-">>)>>

\* the callers suspended inside `await fetcher()`
InFlight == {c \in Callers : cpc[c] = "fetching"}

\* C21: at every moment at most one fetch is in flight, whatever the number
\* of callers and whether earlier fetches succeeded or failed; the fetch in
\* flight is the last one started and its caller holds the lock.
C21_OneFetchInFlight ==
    /\ Cardinality(InFlight) <= 1
    /\ Cardinality({i \in DOMAIN fetches : fetches[i].result = "inflight"})
          = Cardinality(InFlight)
    /\ \A i \in DOMAIN fetches :
          fetches[i].result = "inflight" =>
             /\ i = Len(fetches)
             /\ fetches[i].by \in InFlight
             /\ tc_lock

\* a fetch is in flight after an earlier one failed, while a caller is
\* queued on the lock
C21_Witness ==
    /\ InFlight # {}
    /\ tc_waiters # <<>>
    /\ \E i \in DOMAIN fetches : fetches[i].result = "fail"

\* C22: a get() that finds the current time before the stored expiry
\* returns the cached token and starts no fetch; every token returned comes
\* from a finished successful fetch whose expiry, the completion time plus
\* max(ttl - 30, 30), had not passed when the caller looked, also after a
\* refresh has failed.
C22_FreshTokenOnly ==
    /\ [](\A i \in DOMAIN fetches :
            fetches[i].result = "ok" =>
               \E ttl \in ExpiresIn :
                  fetches[i].expires_at =
                     fetches[i].finished + (IF ttl - 30 > 30 THEN ttl - 30 ELSE 30))
    /\ [](\A c \in Callers :
            cpc[c] = "returned" =>
               \E i \in DOMAIN fetches :
                  /\ fetches[i].result = "ok"
                  /\ cres[c].token = fetches[i].token
                  /\ cres[c].at < fetches[i].expires_at)
    /\ [][\A c \in Callers :
            (cpc[c] = "idle" /\ cpc'[c] # "idle" /\ tc_token # None /\ clock < tc_expires_at)
               => /\ cpc'[c] = "returned"
                  /\ cres'[c].token = tc_token
                  /\ fetches' = fetches]_vars

\* a token was fetched and expired, the refresh failed, and a later get()
\* fetched and returned a new token
C22_Witness ==
    \E i, j, k \in DOMAIN fetches :
       /\ i < j /\ j < k
       /\ fetches[i].result = "ok"
       /\ fetches[j].result = "fail"
       /\ fetches[k].result = "ok"
       /\ \E c \in Callers : cpc[c] = "returned" /\ cres[c].token = fetches[k].token

\* C23: the step in which a fetch fails releases the lock, every caller
\* queued on the lock eventually returns a token or raises, and a fetch that
\* follows a failed one is a new fetch that can succeed.
C23_NoDeadlock ==
    /\ [][\A c \in Callers :
            (cpc[c] = "fetching" /\ cpc'[c] = "raised") => ~tc_lock']_vars
    /\ \A c \in Callers :
          (cpc[c] = "wait_lock") ~> (cpc[c] \in {"returned", "raised"})
    /\ [](\A i \in DOMAIN fetches :
            (i > 1 /\ fetches[i - 1].result = "fail") =>
               fetches[i].started >= fetches[i - 1].finished)

\* a caller that was queued on the lock while the fetch failed has fetched
\* for itself and returned the new token
C23_Witness ==
    \E c \in Callers :
       /\ blocked[c] = "waited_failed"
       /\ cpc[c] = "returned"
       /\ \E i \in DOMAIN fetches :
             /\ i > 1
             /\ fetches[i - 1].result = "fail"
             /\ fetches[i].by = c
             /\ fetches[i].result = "ok"
             /\ cres[c].token = fetches[i].token

\* the stored rows a callback p is matched against, by each rule
SameConversation(p) ==
    IF p.conversation_event_id = None THEN {}
    ELSE {i \in DOMAIN message_logs :
             message_logs[i].conversation_event_id = p.conversation_event_id}

RecentSameContact(p) ==
    IF p.contact_id = None \/ p.channel_id = None THEN {}
    ELSE {i \in DOMAIN message_logs :
             /\ message_logs[i].contact_id = p.contact_id
             /\ message_logs[i].channel_id = p.channel_id
             /\ message_logs[i].created_at >= utcnow - 24 * 60}

\* row m is the one row the step touches, and no row is added
OnlyTouched(m) ==
    /\ m \in DOMAIN message_logs
    /\ DOMAIN message_logs' = DOMAIN message_logs
    /\ \A i \in DOMAIN message_logs : i # m => message_logs'[i] = message_logs[i]

\* the step leaves the stored rows alone and appends one shell row for p
ShellAppended(p) ==
    /\ Len(message_logs') = Len(message_logs) + 1
    /\ \A i \in DOMAIN message_logs : message_logs'[i] = message_logs[i]
    /\ LET row == message_logs'[Len(message_logs')]
       IN /\ row.phone = None
          /\ row.template_name = None
          /\ row.conversation_event_id = p.conversation_event_id
          /\ row.contact_id = p.contact_id
          /\ row.channel_id = p.channel_id
          /\ row.last_status = p.status
          /\ (row.status = "success") <=>
                (Lower(p.status) \in {"sent", "delivered", "read", "success"})
          /\ row.status \in {"success", "failed"}

\* the matching rule applied to the callback handled in this step
MatchedInOrder ==
    LET p == hatif_last'.payload
        m == hatif_last'.matched
    IN IF SameConversation(p) # {}
       THEN m \in SameConversation(p) /\ OnlyTouched(m)
       ELSE IF RecentSameContact(p) # {}
       THEN /\ m \in RecentSameContact(p)
            /\ \A i \in RecentSameContact(p) :
                  message_logs[i].created_at <= message_logs[m].created_at
            /\ OnlyTouched(m)
       ELSE m = 0 /\ ShellAppended(p)

\* C24 (as claimed): every callback is matched by conversation id first, else
\* by the most recent row of the same contact and channel of the last 24
\* hours, else it touches no row and inserts one shell row whose status is
\* success exactly for the statuses sent, delivered, read and success.
C24_MatchingOrder ==
    [][hatif_count' = hatif_count + 1 => MatchedInOrder]_vars

\* the matching rule holds for every callback that was acknowledged
MatchingOrderWhenAcknowledged ==
    [][(hatif_count' = hatif_count + 1 /\ hatif_last'.response = "ok") => MatchedInOrder]_vars

\* C25: a callback that matches a stored row changes that row only: no row
\* is inserted or deleted, the other rows are unchanged, and the matched row
\* keeps its phone, template, coarse status and creation time; no step ever
\* removes a MessageLog row or rewrites those four fields of one.
C25_MatchedRowOnly ==
    /\ [][\A m \in DOMAIN message_logs :
            (hatif_count' = hatif_count + 1 /\ hatif_last'.matched = m) =>
               /\ Len(message_logs') = Len(message_logs)
               /\ \A i \in DOMAIN message_logs :
                     i # m => message_logs'[i] = message_logs[i]]_vars
    /\ [][/\ Len(message_logs') >= Len(message_logs)
          /\ \A i \in DOMAIN message_logs :
                /\ message_logs'[i].phone = message_logs[i].phone
                /\ message_logs'[i].template_name = message_logs[i].template_name
                /\ message_logs'[i].status = message_logs[i].status
                /\ message_logs'[i].created_at = message_logs[i].created_at]_vars

\* a callback reporting a failed delivery has matched the row of a send the
\* provider had accepted, next to another stored row; the row still says
\* success
C25_Witness ==
    /\ hatif_last.matched > 0
    /\ hatif_last.response = "ok"
    /\ Len(message_logs) >= 2
    /\ hatif_last.payload.status = "failed"
    /\ message_logs[hatif_last.matched].status = "success"
    /\ message_logs[hatif_last.matched].last_status = "failed"
    /\ message_logs[hatif_last.matched].phone = "p1"

\* the stored events that had no phone
PhonelessRecords == {i \in DOMAIN webhook_events : webhook_events[i].phone = None}

\* C26: an event that passes the dedup gate without a phone is finished in
\* the step that stores it: nothing is sent to the provider for it, no job is
\* scheduled or canceled, and one failed MessageLog with the reason
\* missing_phone is written.
C26_MissingPhoneStops ==
    /\ [](\A i \in PhonelessRecords :
            LET id == webhook_events[i].external_event_id
            IN /\ ClientCallsOf(id) = {}
               /\ AdminCallsOf(id) = {}
               /\ JobsOf(id) = {}
               /\ Working(id) = {}
               /\ event_outcome[id] = "failed")
    /\ [][(Len(webhook_events') > Len(webhook_events)
            /\ webhook_events'[Len(webhook_events')].phone = None)
           => /\ provider_calls' = provider_calls
              /\ scheduled_messages' = scheduled_messages
              /\ Len(message_logs') = Len(message_logs) + 1
              /\ LET row == message_logs'[Len(message_logs')]
                 IN /\ row.status = "failed"
                    /\ row.phone = None
                    /\ row.provider_response = [success |-> FALSE, response |-> "missing_phone"]
              /\ \A q \in Procs : ppc'[q] # ppc[q] => ppc'[q] = "done"]_vars

\* a confirmed event without a phone was stored and finished in template
\* mode with admin numbers configured: nothing was sent, the one row says
\* missing_phone
C26_Witness ==
    /\ send_mode = "template"
    /\ admin_numbers # <<>>
    /\ PhonelessRecords # {}
    /\ \A i \in DOMAIN webhook_events :
          /\ webhook_events[i].phone = None
          /\ webhook_events[i].event_name = "ReservationConfirmedEvent"
    /\ provider_calls = EmptyBag
    /\ Len(message_logs) = 1
    /\ message_logs[1].provider_response = [success |-> FALSE, response |-> "missing_phone"]

\* the stored events that have a phone and whose name maps to no template
UnsupportedRecords ==
    {i \in DOMAIN webhook_events :
        /\ webhook_events[i].phone # None
        /\ webhook_events[i].event_name \notin
              {"ReservationCreatedEvent", "ReservationConfirmedEvent",
               "ReservationCancelledEvent"}}

\* the step stores an unsupported event and finishes it with one failed row
\* carrying the reason unsupported_event, sending nothing
StoredAndRefused ==
    (Len(webhook_events') > Len(webhook_events)
       /\ Len(webhook_events') \in UnsupportedRecords')
    => /\ provider_calls' = provider_calls
       /\ scheduled_messages' = scheduled_messages
       /\ Len(message_logs') = Len(message_logs) + 1
       /\ LET row == message_logs'[Len(message_logs')]
          IN /\ row.status = "failed"
             /\ row.template_name = None
             /\ row.provider_response = [success |-> FALSE, response |-> "unsupported_event"]

\* C27 (as claimed): in either send mode nothing is sent to the provider for
\* an event whose name maps to no template, and the step that stores it
\* writes a failed MessageLog with the reason unsupported_event.
C27_UnsupportedNeverSent ==
    /\ [](\A i \in UnsupportedRecords :
            ClientCallsOf(webhook_events[i].external_event_id) = {})
    /\ [][StoredAndRefused]_vars

\* C27 (amended): in template mode nothing is sent for such an event and the
\* step that stores it writes a failed MessageLog with the reason
\* unsupported_event; in text mode the event is sent as free text like any
\* other and its MessageLog reports what the send returned.
C27_UnsupportedNotSentInTemplateMode ==
    /\ [](\A i \in UnsupportedRecords :
            LET id == webhook_events[i].external_event_id
            IN IF send_mode = "text"
               THEN /\ CountCalls(ClientCallsOf(id)) = 1
                    /\ \A c \in ClientCallsOf(id) : c.kind = "text"
               ELSE /\ ClientCallsOf(id) = {}
                    /\ event_outcome[id] = "failed"
                    /\ Working(id) = {})
    /\ [][send_mode # "text" => StoredAndRefused]_vars
    /\ [](send_mode = "text" =>
            \A i \in DOMAIN message_logs :
               message_logs[i].provider_response
                  # [success |-> FALSE, response |-> "unsupported_event"])

\* in template mode an event named ReservationDoneEvent was stored and
\* refused: nothing was sent and its row says unsupported_event
C27_Witness ==
    /\ send_mode = "template"
    /\ \E i \in UnsupportedRecords :
          /\ webhook_events[i].event_name = "ReservationDoneEvent"
          /\ ClientCallsOf(webhook_events[i].external_event_id) = {}
    /\ \E i \in DOMAIN message_logs :
          message_logs[i].provider_response
             = [success |-> FALSE, response |-> "unsupported_event"]

\* C28: a request whose body cannot be parsed, or whose payload lacks the
\* external id or the event name, is dropped: the step that handles it
\* inserts and changes no WebhookEvent, MessageLog or ScheduledMessage and
\* sends nothing, and no stored event lacks its id or its name.
C28_DroppedWithoutTrace ==
    /\ [][\A q \in Procs :
            (ppc[q] = "idle" /\ ppc'[q] \in {"dropped", "invalid_json"}) =>
               /\ webhook_events' = webhook_events
               /\ message_logs' = message_logs
               /\ scheduled_messages' = scheduled_messages
               /\ provider_calls' = provider_calls]_vars
    /\ [](\A i \in DOMAIN webhook_events :
            /\ webhook_events[i].external_event_id # None
            /\ webhook_events[i].event_name # None)
    /\ [](Len(webhook_events)
            <= Cardinality({q \in Procs : ppc[q] \notin {"idle", "dropped", "invalid_json"}}))

\* one request was unparseable and one lacked a field: nothing is stored and
\* nothing was sent
C28_Witness ==
    /\ \E q \in Procs : ppc[q] = "invalid_json"
    /\ \E q \in Procs : ppc[q] = "dropped"
    /\ webhook_events = <<>>
    /\ message_logs = <<>>
    /\ scheduled_messages = <<>>
    /\ provider_calls = EmptyBag

\* C29 (as claimed): a callback whose body cannot be parsed inserts no
\* MessageLog row and modifies none.
C29_MalformedDropped ==
    [][(hatif_count' = hatif_count + 1 /\ hatif_last'.body = "malformed")
          => message_logs' = message_logs]_vars

\* the number of sends to admin number a for event id among the calls
AdminSendsIn(calls, id, a) ==
    LET to == {c \in BagToSet(calls) : c.path = "admin" /\ c.event = id /\ c.to = a}
    IN IF to = {} THEN 0 ELSE BagCardinality([c \in to |-> CopiesIn(c, calls)])

AdminSendsTo(id, a) == AdminSendsIn(provider_calls, id, a)

\* the admin MessageLog rows
AdminRows ==
    {i \in DOMAIN message_logs : message_logs[i].template_name = "admin_reservation_confirmed"}

\* what the step in which task q gets the answer of its k-th admin send does
AdminStep(q) ==
    LET k == pev[q].admin
        ev == pev[q].ev
        added == Len(message_logs') - Len(message_logs)
    IN IF k < Len(admin_numbers)
       THEN /\ ppc'[q] = "admin_wait"
            /\ pev'[q].admin = k + 1
            /\ AdminSendsIn(provider_calls', ev.id, admin_numbers[k + 1]) = 1
            /\ added \in {0, 1}
            /\ added = 1 =>
                  /\ message_logs'[Len(message_logs')].phone = admin_numbers[k]
                  /\ Len(message_logs') \in AdminRows'
       ELSE /\ ppc'[q] = "done"
            /\ provider_calls' = provider_calls
            /\ SchedulingAttempted(ev)
            /\ added \in {1, 2}
            /\ LET row == message_logs'[Len(message_logs')]
               IN /\ row.phone = ev.phone
                  /\ row.template_name = "reservation_confirmed"
                  /\ row.status = "success"
            /\ added = 2 =>
                  /\ message_logs'[Len(message_logs') - 1].phone = admin_numbers[k]
                  /\ (Len(message_logs') - 1) \in AdminRows'

JobEnds(w) == wpc[w] \in {"job_token", "job_wait"} /\ widx'[w] # widx[w]

\* the step of worker w in which the token could not be had: the send of
\* the job raised before anything was posted
TokenFailure(w) == wpc[w] = "job_token" /\ widx'[w] # widx[w]

\* C31: whatever the send of a job returned or raised, the tick goes on to
\* the next job it selected, keeping the jobs already processed for the
\* commit; a raised send leaves its error text as the job's last_error, in
\* the session and then in the store; a tick whose commit is refused stores
\* nothing, and either way the worker is back in its sleep, from which the
\* next tick starts.
C31_ExceptionKeepsBatch ==
    [][\A w \in Workers :
         JobEnds(w) =>
            LET k == widx[w]
                batch == wbatch[w]
            IN IF k < Len(batch)
               THEN /\ wpc'[w] = "job_token"
                    /\ widx'[w] = k + 1
                    /\ Len(wbatch'[w]) = Len(batch)
                    /\ wbatch'[w][k + 1].row.attempts = batch[k + 1].row.attempts + 1
                    /\ \A x \in 1..(k - 1) : wbatch'[w][x] = batch[x]
                    /\ wbatch'[w][k].row.attempts = batch[k].row.attempts
                    /\ TokenFailure(w) => wbatch'[w][k].row.last_error = "exception"
                    /\ scheduled_messages' = scheduled_messages
               ELSE /\ wpc'[w] = "sleep"
                    /\ IF \A x \in 1..k : batch[x].id \in DOMAIN scheduled_messages
                       THEN \A x \in 1..k :
                               LET new == scheduled_messages'[batch[x].id]
                               IN /\ new.attempts = batch[x].row.attempts
                                  /\ x < k => new.last_error = batch[x].row.last_error
                                  /\ x = k /\ TokenFailure(w) => new.last_error = "exception"
                       ELSE /\ scheduled_messages' = scheduled_messages
                            /\ message_logs' = message_logs]_vars

\* the send of the first job of a tick raised, its error is kept in the
\* session, and the tick is at its second job
C31_Witness ==
    \E w \in Workers :
       /\ wpc[w] \in {"job_token", "job_wait"}
       /\ widx[w] = 2
       /\ wbatch[w][1].row.last_error = "exception"
       /\ wbatch[w][1].row.status = "pending"

\* the step in which a tick of worker w makes its selection
Selects(w) == wpc[w] = "sleep" /\ wpc'[w] = "job_token"

\* the stored jobs a tick may attempt at this moment
Eligible ==
    {j \in DOMAIN scheduled_messages :
        /\ scheduled_messages[j].status = "pending"
        /\ scheduled_messages[j].run_at <= utcnow
        /\ scheduled_messages[j].attempts < MAX_ATTEMPTS}

\* C32: the jobs a tick loads are, at that moment, pending, due (run_at <=
\* utcnow) and below MAX_ATTEMPTS; they are at most BATCH_SIZE distinct jobs
\* in ascending run_at order, and an eligible job is left out only when the
\* batch is full of jobs due no later than it; the tick sends them in that
\* order, and no reminder is ever sent before its run_at.
C32_DueJobsInOrder ==
    /\ [][\A w \in Workers :
            Selects(w) =>
               LET b == wbatch'[w]
               IN /\ Len(b) \in 1..BATCH_SIZE
                  /\ \A x \in 1..Len(b) :
                        /\ b[x].id \in Eligible
                        /\ b[x].loaded = scheduled_messages[b[x].id]
                        /\ \A y \in 1..Len(b) :
                              x < y => /\ b[x].id # b[y].id
                                       /\ b[x].loaded.run_at <= b[y].loaded.run_at
                  /\ \A j \in Eligible \ {b[x].id : x \in 1..Len(b)} :
                        /\ Len(b) = BATCH_SIZE
                        /\ \A x \in 1..Len(b) :
                              b[x].loaded.run_at <= scheduled_messages[j].run_at
                  /\ widx'[w] = 1]_vars
    /\ [][\A w \in Workers :
            wpc[w] = "job_token" /\ wpc'[w] = "job_wait" =>
               \E c \in DOMAIN provider_calls' :
                  /\ c.path = "reminder"
                  /\ c.job = wbatch[w][widx[w]].id
                  /\ CopiesIn(c, provider_calls') = CopiesIn(c, provider_calls) + 1]_vars
    /\ [](\A c \in DOMAIN provider_calls :
            c.path = "reminder" /\ c.job \in DOMAIN scheduled_messages =>
               scheduled_messages[c.job].run_at <= utcnow)

\* a tick has loaded a full batch while a job due later than all of them
\* stays behind, and it is sending the last job of the batch
C32_Witness ==
    \E w \in Workers :
       /\ wpc[w] = "job_wait"
       /\ Len(wbatch[w]) = BATCH_SIZE
       /\ widx[w] = BATCH_SIZE
       /\ \E j \in Eligible \ {wbatch[w][x].id : x \in 1..BATCH_SIZE} :
             \A x \in 1..BATCH_SIZE :
                wbatch[w][x].loaded.run_at <= scheduled_messages[j].run_at

\* the body of the last callback, as it was sent
LastBody ==
    [kind |-> hatif_last.body, payload |-> hatif_last.payload, bytes |-> hatif_last.bytes]

\* the step that handles a callback
Handles == hatif_count' = hatif_count + 1

C34_UniqueConversationId ==
    \A i, j \in DOMAIN message_logs :
       /\ i # j
       /\ message_logs[i].conversation_event_id # None
       => message_logs[i].conversation_event_id # message_logs[j].conversation_event_id

\* C35 (as claimed): a callback whose conversation id is stored in no
\* MessageLog leaves alone the conversation id, contact and channel of every
\* row that holds a conversation id.
C35_StrongerIdKept ==
    [][Handles =>
          LET p == hatif_last'.payload
          IN /\ p.conversation_event_id # None
             /\ ByConversation(p.conversation_event_id) = {}
             => \A i \in DOMAIN message_logs :
                   message_logs[i].conversation_event_id # None =>
                      /\ message_logs'[i].conversation_event_id =
                            message_logs[i].conversation_event_id
                      /\ message_logs'[i].contact_id = message_logs[i].contact_id
                      /\ message_logs'[i].channel_id = message_logs[i].channel_id]_vars

\* the MessageLog rows of reminder sends that the provider accepted
SentReminderRows ==
    {i \in DOMAIN message_logs :
        /\ message_logs[i].template_name = "reservation_reminder"
        /\ message_logs[i].status = "success"}

\* C36 (as claimed): no job is sent successfully more than once, so there
\* are never more logged successful reminder sends than jobs ever created.
C36_OneSuccessfulSendPerJob ==
    Cardinality(SentReminderRows) <= job_seq

\* the instant a stored status timestamp stands for
TimeOf(t) == IF t = "t10" THEN 10 ELSE IF t = "t20" THEN 20 ELSE 0

\* C37 (as claimed): the status timestamp stored in a MessageLog never
\* moves backwards, so that after callbacks in any order the row holds the
\* status and timestamp of the latest one.
C37_StatusTimeMonotonic ==
    [][\A i \in DOMAIN message_logs :
          /\ message_logs[i].last_status_at # None
          /\ message_logs'[i].last_status_at # None
          => TimeOf(message_logs'[i].last_status_at) >=
                TimeOf(message_logs[i].last_status_at)]_vars

\* the sends issued to the provider for job j
SendsOfJob(j) ==
    CountCalls({c \in DOMAIN provider_calls : c.path = "reminder" /\ c.job = j})

\* C38 (as claimed): every job has at most MAX_ATTEMPTS attempts and at
\* most MAX_ATTEMPTS sends issued for it, and a pending job has fewer than
\* MAX_ATTEMPTS attempts.
C38_AttemptsBounded ==
    \A j \in DOMAIN scheduled_messages :
       /\ scheduled_messages[j].attempts <= MAX_ATTEMPTS
       /\ SendsOfJob(j) <= MAX_ATTEMPTS
       /\ scheduled_messages[j].status = "pending" =>
             scheduled_messages[j].attempts < MAX_ATTEMPTS

\* job j is pending and its run_at has passed
DueAndPending(j) ==
    /\ j \in DOMAIN scheduled_messages
    /\ scheduled_messages[j].status = "pending"
    /\ scheduled_messages[j].run_at <= utcnow

\* C39 (as claimed): in the running application every pending job whose
\* run_at has passed eventually leaves pending (it is sent, failed or
\* canceled, or its row is gone).
C39_DueJobsLeavePending ==
    \A j \in 1..(MaxDeliveries + MaxTestRuns) :
       DueAndPending(j) ~>
          (j \notin DOMAIN scheduled_messages \/ scheduled_messages[j].status # "pending")

\* the successful fetch that produced the token a caller was given
FetchOf(c) ==
    CHOOSE i \in DOMAIN fetches : fetches[i].result = "ok" /\ fetches[i].token = cres[c].token

\* C40 (as claimed): no token is returned later than its lifetime
\* (expires_in seconds) after the fetch that produced it, and the expiry
\* stored with it is the completion time of the fetch plus
\* max(expires_in - 30, 30).
C40_WithinProviderLifetime ==
    /\ \A c \in Callers :
          cpc[c] = "returned" =>
             cres[c].at <= fetches[FetchOf(c)].finished + fetches[FetchOf(c)].expires_in
    /\ \A i \in DOMAIN fetches :
          fetches[i].result = "ok" =>
             fetches[i].expires_at = fetches[i].finished +
                (IF fetches[i].expires_in - 30 > 30 THEN fetches[i].expires_in - 30 ELSE 30)

\* C40 (amended): the expiry stored with a token is the completion time of
\* its fetch plus max(expires_in - 30, 30); a token is returned only before
\* that expiry, which is within its lifetime when expires_in is at least 30
\* and 30 seconds ahead of it when expires_in is 60 or more.
C40_WithinEffectiveTtl ==
    /\ \A c \in Callers :
          cpc[c] = "returned" =>
             LET f == fetches[FetchOf(c)]
             IN /\ cres[c].at < f.expires_at
                /\ f.expires_in >= 30 => cres[c].at <= f.finished + f.expires_in
                /\ f.expires_in >= 60 => cres[c].at < f.finished + f.expires_in - 30
                /\ f.expires_in < 30 => cres[c].at < f.finished + 30
    /\ \A i \in DOMAIN fetches :
          fetches[i].result = "ok" =>
             fetches[i].expires_at = fetches[i].finished +
                (IF fetches[i].expires_in - 30 > 30 THEN fetches[i].expires_in - 30 ELSE 30)

\* a token whose lifetime is under 30 seconds was returned from the cache,
\* to a caller that did not fetch it, after that lifetime had passed
C40_Witness ==
    \E c \in Callers :
       /\ cpc[c] = "returned"
       /\ fetches[FetchOf(c)].by # c
       /\ fetches[FetchOf(c)].expires_in < 30
       /\ cres[c].at > fetches[FetchOf(c)].finished + fetches[FetchOf(c)].expires_in

=============================================================================
